---- MODULE Spec2Model ----
(***************************************************************************)
(* Model of the dynamic MCP client (src/src/handlers/dynamic_mcp_client.py) *)
(* and of the configuration manager it reads                                *)
(* (src/src/config/mcp_config.py).                                          *)
(*                                                                          *)
(* State: the configured server definitions, the heap of                    *)
(* MCPServerConnection objects with the subprocess each one owns (its two   *)
(* pipes), the registry (DynamicMCPClient) maps, the event loop of the      *)
(* synchronous wrapper, and the position of every calling thread.           *)
(* The provider subprocesses are the environment.                           *)
(***************************************************************************)
EXTENDS Integers, Sequences, FiniteSets, TLC

\* ------------------------------------------------------------------ bounds
\* operations one calling thread starts
MaxOps == 3
\* off-protocol lines the providers may emit (inbound requests, stale or
\* malformed responses, unparsable lines)
MaxChaos == 2
\* operations of the caller in the one-connection specification
WireOps == 2
\* operations of each caller in the two-thread specification
ThreadOps == 2
\* operations of the caller in the connection-interface specification
ConnOps == 4
GetterOps == 4
ChatOps == 2
\* operations on the configuration manager
ConfigOps == 3
\* operations of the caller in the specification of failing providers
FaultOps == 3
\* operations of the caller in the specification of the connection lifecycle
LifeOps == 3
\* operations of the caller in the specification of failing requests
FrameOps == 2
\* operations of the caller in the specification of the catalogs' frame
CatalogOps == 3
\* operations of the caller in the specification of initialize()'s gather
GatherOps == 1
\* operations of the caller in the specification of pending requests
PendingOps == 2
ReinitOps == 4
OrphanOps == 3
ManagerOps == 3
\* calls of has_capability, and keys of the catalog it is asked about
CapabilityOps == 1
MaxTools == 2

\* ------------------------------------------------------- program constants
\* JSON-RPC "method not found"
MethodNotFound == -32601

\* ------------------------------------------------------------ value sets
Names == {"math_tool", "weather", "My Math Tool"}
Tools == {"add", "sub"}
ToolNames == Tools \cup {"multiply"}
\* tool lists a provider may answer tools/list with
ToolLists == {<<>>, <<"add">>, <<"add", "sub">>}
ResourceLists == {<<"file:///a">>}
\* the uris a caller asks for
ResourceUris == {"file:///a", "file:///b"}
None == 0

VARIABLES
    servers,             \* MCPConfigManager.servers, in dict order
    conns,               \* heap of MCPServerConnection objects
    proc,                \* per connection: state of the subprocess it spawned
    stdin,               \* per connection: lines written to the subprocess it has not read
    stdout,              \* per connection: lines of the subprocess not yet read
    server_connections,  \* DynamicMCPClient.server_connections, in dict order
    available_tools,     \* DynamicMCPClient.available_tools
    available_resources, \* DynamicMCPClient.available_resources
    client_initialized,  \* DynamicMCPClient._initialized
    wrapper_loop,        \* DynamicMCPClientSync._loop (None or a loop)
    loops,               \* event loops created so far
    th,                  \* the calling threads
    nextId,              \* source of fresh request ids (uuid4)
    written,             \* history: number of lines the client has written
    chaos                \* off-protocol lines the providers may still emit

vars == <<servers, conns, proc, stdin, stdout, server_connections,
          available_tools, available_resources, client_initialized,
          wrapper_loop, loops, th, nextId, written, chaos>>

\* ---------------------------------------------------------------- helpers
Range(s) == {s[i] : i \in DOMAIN s}

\* dict.update(other)
Update(d, other) ==
    [x \in DOMAIN d \cup DOMAIN other |-> IF x \in DOMAIN other THEN other[x] ELSE d[x]]

EmptyMap == [x \in {} |-> None]

\* ------------------------------------------------------------ wire codec
\* One line of the stream, as json.loads sees it.  kind "bad" is a line
\* that does not parse to an object.
Line(kind, method, hasId, id, shape, items, text) ==
    [kind |-> kind, method |-> method, hasId |-> hasId, id |-> id,
     shape |-> shape, items |-> items, text |-> text, code |-> 0]

Request(id, method, text) == Line("obj", method, TRUE, id, "none", <<>>, text)
Notification(method) == Line("obj", method, FALSE, None, "none", <<>>, "")
Response(id, shape, items, text) == Line("obj", "", TRUE, id, shape, items, text)
ErrorResponse(id, code, text) ==
    [Line("obj", "", TRUE, id, "error", <<>>, text) EXCEPT !.code = code]
BadLine == Line("bad", "", FALSE, None, "none", <<>>, "")
\* what _send_request returns when it returns None
NoResponse == Line("null", "", FALSE, None, "none", <<>>, "")

\* "error" in response / "result" in response.  The shapes of a response:
\* "error" (an error object with a message), "error_nomsg" (an error object
\* without one), "content" / "contents" (a result holding the list under
\* that key; for the list methods "content" stands for the list's own key),
\* "other" (a result object {text: []}), "none" (neither field)
HasError(resp) == resp.shape \in {"error", "error_nomsg"}
HasResult(resp) == resp.shape \in {"content", "contents", "other"}
\* error.get('message', 'Unknown error')
ErrorMessage(resp) == IF resp.shape = "error" THEN resp.text ELSE "Unknown error"
\* result.get("tools", []) and its likes
Items(resp) == IF resp.shape = "content" THEN resp.items ELSE <<>>

\* a read loop that hands the caller the next response, whatever its id
ClassifyByArrival(line, request_id) ==
    IF line.kind # "obj" THEN "fail"
    ELSE IF line.method # "" /\ line.hasId THEN "server_request"
    ELSE IF line.hasId THEN "match"
    ELSE "skip"

\* a strict request/response read loop: inbound requests are skipped
ClassifyStrict(line, request_id) ==
    IF line.kind # "obj" THEN "fail"
    ELSE IF line.hasId /\ line.method = "" /\ line.id = request_id THEN "match"
    ELSE "skip"

\* _send_request's treatment of one line read while waiting for request_id:
\* "fail" (json.loads or .get raised), "server_request", "match" or "skip"
Classify(line, request_id) ==
    IF line.kind # "obj" THEN "fail"
    ELSE IF line.method # "" /\ line.hasId THEN "server_request"
    ELSE IF line.hasId /\ line.id = request_id THEN "match"
    ELSE "skip"

\* a handler that answers every inbound request as it answers roots/list
ServerRequestReplyAlwaysRoots(request) ==
    Response(request.id, "other", <<>>, "roots")

\* the line _handle_server_request writes for an inbound request: the
\* result {"roots": []} or the error "method not found"
ServerRequestReply(request) ==
    IF request.method = "roots/list"
    THEN Response(request.id, "other", <<>>, "roots")
    ELSE ErrorResponse(request.id, MethodNotFound, "Method not found")

\* ----------------------------------------------------------- connections
\* MCPServerConnection.__init__
NewConnection(server) ==
    [key |-> server.key, name |-> server.name, process |-> FALSE,
     tools |-> EmptyMap, resources |-> EmptyMap, initialized |-> FALSE]

\* the subprocess of connection c accepts a write on its input pipe
Writable(c) == conns[c].process /\ proc[c] = "running"

\* MCPTool / MCPResource objects built by _discover_capabilities; `conn` is
\* the identity of the connection object that built them
Discovered(c, items) ==
    [n \in Range(items) |-> [server_name |-> conns[c].name, conn |-> c]]

\* one item of a content list
Item(type, text) == [type |-> type, text |-> text]

\* "\n".join(item["text"] for the items whose type is "text")
RECURSIVE JoinText(_)
JoinText(items) ==
    LET texts == SelectSeq(items, LAMBDA item : item.type = "text")
    IN  IF texts = <<>> THEN ""
        ELSE IF Len(texts) = 1 THEN texts[1].text
        ELSE texts[1].text \o "\n" \o JoinText(Tail(texts))

\* json.dumps(items, indent=2) at the nesting depth of a result's member
RECURSIVE DumpsItems(_)
DumpsItems(items) ==
    IF items = <<>> THEN ""
    ELSE "\n    {\n      \"type\": \"" \o items[1].type
         \o "\",\n      \"text\": \"" \o items[1].text \o "\"\n    }"
         \o (IF Len(items) = 1 THEN "\n  " ELSE "," \o DumpsItems(Tail(items)))

\* json.dumps(result, indent=2) of a result object with the one member key
Dumps(key, items) == "{\n  \"" \o key \o "\": [" \o DumpsItems(items) \o "]\n}"

\* the member key of the result of resp
ResultKey(resp) == IF resp.shape = "other" THEN resp.text ELSE resp.shape

\* a reading that takes the text of the first item for the whole answer
FormatResultFirstItem(resp, listKey) ==
    IF resp = NoResponse THEN [kind |-> "value", ok |-> FALSE, msg |-> "No response from server", text |-> ""]
    ELSE IF HasError(resp) THEN [kind |-> "value", ok |-> FALSE, msg |-> "Server error", text |-> ErrorMessage(resp)]
    ELSE IF HasResult(resp)
         THEN IF resp.shape = listKey
              THEN [kind |-> "value", ok |-> TRUE, msg |-> "content",
                    text |-> IF resp.items = <<>> THEN "" ELSE resp.items[1].text]
              ELSE [kind |-> "value", ok |-> TRUE, msg |-> "json",
                    text |-> Dumps(ResultKey(resp), resp.items)]
    ELSE [kind |-> "value", ok |-> FALSE, msg |-> "No result in response", text |-> ""]

\* call_tool's and read_resource's reading of the response: listKey is
\* "content" for tools/call and "contents" for resources/read
FormatResult(resp, listKey) ==
    IF resp = NoResponse THEN [kind |-> "value", ok |-> FALSE, msg |-> "No response from server", text |-> ""]
    ELSE IF HasError(resp) THEN [kind |-> "value", ok |-> FALSE, msg |-> "Server error", text |-> ErrorMessage(resp)]
    ELSE IF HasResult(resp)
         THEN IF resp.shape = listKey
              THEN [kind |-> "value", ok |-> TRUE, msg |-> "content", text |-> JoinText(resp.items)]
              ELSE [kind |-> "value", ok |-> TRUE, msg |-> "json",
                    text |-> Dumps(ResultKey(resp), resp.items)]
    ELSE [kind |-> "value", ok |-> FALSE, msg |-> "No result in response", text |-> ""]

\* a call_tool that takes the first item's text for the answer
CallToolResultFirstItem(resp) == FormatResultFirstItem(resp, "content")

\* a call_tool that lets the failure of its request reach the caller
CallToolResultRaising(resp) ==
    IF resp = NoResponse
    THEN [kind |-> "raised", ok |-> FALSE, msg |-> "RuntimeError", text |-> ""]
    ELSE FormatResult(resp, "content")

\* call_tool's reading of the response to tools/call
CallToolResult(resp) == FormatResult(resp, "content")

\* a read_resource that reads result.content as call_tool does
ReadResourceResultAsTool(resp) == FormatResult(resp, "content")

\* read_resource's reading of the response to resources/read
ReadResourceResult(resp) == FormatResult(resp, "contents")

\* ------------------------------------------------------------- registry
\* dict.get on the ordered server_connections map
ConnectionOf(sc, k) ==
    IF \E i \in DOMAIN sc : sc[i].key = k
    THEN sc[CHOOSE i \in DOMAIN sc : sc[i].key = k].conn
    ELSE None

\* server_connections[k] = c: an existing key keeps its place in the order
SetConnection(sc, k, c) ==
    IF \E i \in DOMAIN sc : sc[i].key = k
    THEN [i \in DOMAIN sc |-> IF sc[i].key = k THEN [key |-> k, conn |-> c] ELSE sc[i]]
    ELSE Append(sc, [key |-> k, conn |-> c])

\* a selection that ignores the enabled flag
AllServers == servers

\* get_enabled_servers
EnabledServers == SelectSeq(servers, LAMBDA s : s.enabled)

\* MCPServerConfig.transport, a field whose default is STDIO
Transport(server) ==
    IF "transport" \in DOMAIN server THEN server.transport ELSE "stdio"

\* the transport of self.config, the definition connection c was built from
ConfigTransport(c) ==
    Transport(CHOOSE s \in Range(servers) : s.key = conns[c].key)

\* the loop of initialize that creates a connection per enabled server;
\* the j-th new connection gets heap index base + j
RECURSIVE Register(_, _, _, _)
Register(sc, enabled, base, j) ==
    IF j > Len(enabled) THEN sc
    ELSE Register(SetConnection(sc, enabled[j].key, base + j), enabled, base, j + 1)

\* an aggregation that takes the maps of every connection of the map
RECURSIVE AggregateAll(_, _, _, _)
AggregateAll(catalog, sc, i, field) ==
    IF i > Len(sc) THEN catalog
    ELSE AggregateAll(Update(catalog, IF field = "tools" THEN conns[sc[i].conn].tools
                                      ELSE conns[sc[i].conn].resources),
                      sc, i + 1, field)

\* the loop of initialize that merges the maps of the initialized connections
RECURSIVE Aggregate(_, _, _, _)
Aggregate(catalog, sc, i, field) ==
    IF i > Len(sc) THEN catalog
    ELSE LET connection == conns[sc[i].conn]
         IN  Aggregate(IF connection.initialized
                       THEN Update(catalog, IF field = "tools" THEN connection.tools
                                            ELSE connection.resources)
                       ELSE catalog,
                       sc, i + 1, field)

\* -------------------------------------------------------------- threads
NoReq == [conn |-> None, id |-> None, method |-> ""]
NoRet == [kind |-> "none", ok |-> FALSE, msg |-> "", text |-> ""]
\* what an operation observed and did, kept for the properties below
NoTrack == [inCatalog |-> FALSE, disc |-> None, discInit |-> FALSE, discLive |-> FALSE,
            owner |-> None, ownerInit |-> FALSE, server_name |-> "",
            sentTo |-> None, lines0 |-> 0, inbound |-> <<>>, skipped |-> <<>>,
            asked |-> None, handed |-> NoResponse]

\* the bridge a thread runs, what the oracle did and what the bridge made of it
NoChat == [bridge |-> "", consulted |-> FALSE, outcome |-> "", selects |-> ""]

\* the object a getter handed to its caller: ref "copy" is a dict of its own,
\* ref "catalog" would be the registry's dict itself, ref "str" a string
NoHeld == [ref |-> "none", value |-> EmptyMap]

IdleThread(ops) ==
    [pc |-> "idle", op |-> "", arg |-> "", target |-> None, loop |-> None, todo |-> <<>>,
     results |-> <<>>, req |-> NoReq, ret |-> NoRet, opsLeft |-> ops,
     track |-> NoTrack, held |-> NoHeld, chat |-> NoChat]

Threads == DOMAIN th

\* the value a finished operation hands back; the thread is idle again
Return(me, ret) ==
    [me EXCEPT !.pc = "idle", !.ret = ret, !.req = NoReq, !.todo = <<>>]

Raised == [kind |-> "raised", ok |-> FALSE, msg |-> "RuntimeError", text |-> ""]
Value(ok, msg, text) == [kind |-> "value", ok |-> ok, msg |-> msg, text |-> text]

\* run_until_complete returns: the loop stops running
Release(ls, before, after) ==
    IF after.pc = "idle" /\ before.loop # None
    THEN [ls EXCEPT ![before.loop].running = None]
    ELSE ls

\* ------------------------------------------------- steps of a coroutine
\* The registers a step of a coroutine may change.
Ctx(me) ==
    [conns |-> conns, proc |-> proc, stdin |-> stdin, nextId |-> nextId,
     written |-> written, me |-> me]

\* stdin.write + flush on a writable pipe
Write(ctx, c, line) ==
    [ctx EXCEPT !.stdin[c] = Append(@, line), !.written = @ + 1]

\* a request that carries the id of the connection's first request again
SendRequestReusedId(ctx, c, method, text) ==
    [ctx EXCEPT !.stdin[c] = Append(@, Request(1, method, text)),
                !.written = @ + 1,
                !.nextId = @ + 1,
                !.me.req = [conn |-> c, id |-> 1, method |-> method],
                !.me.pc = "wait"]

\* _send_request up to its read loop, on a writable pipe: a fresh id, the
\* request line, and the caller waits for the response
SendRequest(ctx, c, method, text) ==
    [ctx EXCEPT !.stdin[c] = Append(@, Request(ctx.nextId, method, text)),
                !.written = @ + 1,
                !.nextId = @ + 1,
                !.me.req = [conn |-> c, id |-> ctx.nextId, method |-> method],
                !.me.pc = "wait"]

\* a failed connect() that gives up on the connections still to come
ConnectResultAbort(ctx, ok) ==
    [ctx EXCEPT !.me.results = Append(@, ok),
                !.me.todo = IF ok THEN Tail(@) ELSE <<>>,
                !.me.req = NoReq, !.me.pc = "connect"]

\* connect() returns ok to initialize's gather
ConnectResult(ctx, ok) ==
    [ctx EXCEPT !.me.results = Append(@, ok), !.me.todo = Tail(@),
                !.me.req = NoReq, !.me.pc = "connect"]

\* an entry of a tools or resources list that lacks a key the discovery
\* loop subscripts ("name", "uri"): building its object raises KeyError
Nameless == "<no name>"

\* the entries of a list the discovery loop stores before it raises, if it does
Stored(items) ==
    LET bad == {i \in DOMAIN items : items[i] = Nameless}
    IN  IF bad = {} THEN items
        ELSE SubSeq(items, 1, (CHOOSE i \in bad : \A j \in bad : i <= j) - 1)

\* the except clause of _connect_stdio: the process is terminated, its
\* handle kept, and connect() returns False
ConnectRaised(ctx, c) ==
    ConnectResult([ctx EXCEPT !.proc[c] = IF ctx.conns[c].process THEN "terminated" ELSE @],
                  FALSE)

\* a handshake that counts as a success only if it discovered something
ConnectedIfDiscovered(ctx, c) ==
    IF ctx.conns[c].tools = EmptyMap /\ ctx.conns[c].resources = EmptyMap
    THEN ConnectResult(ctx, FALSE)
    ELSE ConnectResult([ctx EXCEPT !.conns[c].initialized = TRUE], TRUE)

\* the end of _connect_stdio
Connected(ctx, c) ==
    ConnectResult([ctx EXCEPT !.conns[c].initialized = TRUE], TRUE)

\* a handshake that goes on to discovery whatever the initialize exchange returned
AfterInitializeLenient(ctx, c, resp) ==
    IF Writable(c)
    THEN SendRequest(Write(ctx, c, Notification("notifications/initialized")),
                     c, "tools/list", "")
    ELSE Connected([ctx EXCEPT !.nextId = @ + 2], c)

\* _connect_stdio after the initialize exchange returned resp
AfterInitialize(ctx, c, resp) ==
    IF resp = NoResponse \/ HasError(resp) THEN ConnectResult(ctx, FALSE)
    ELSE IF Writable(c)
         THEN SendRequest(Write(ctx, c, Notification("notifications/initialized")),
                          c, "tools/list", "")
         \* the notification and both list requests fail on the broken pipe
         ELSE Connected([ctx EXCEPT !.nextId = @ + 2], c)

\* a discovery that marks the connection initialized once its tools are listed
AfterToolsListEager(ctx, c, resp) ==
    LET listed == IF resp # NoResponse /\ HasResult(resp)
                  THEN [ctx EXCEPT !.conns[c].tools = Update(@, Discovered(c, Items(resp))),
                                   !.conns[c].initialized = TRUE]
                  ELSE [ctx EXCEPT !.conns[c].initialized = TRUE]
    IN  IF conns[c].process /\ proc[c] = "running"
        THEN SendRequest(listed, c, "resources/list", "")
        ELSE ConnectResult([listed EXCEPT !.nextId = @ + 1], TRUE)

\* _discover_capabilities after tools/list returned resp
AfterToolsList(ctx, c, resp) ==
    LET items == IF resp # NoResponse /\ HasResult(resp) THEN Items(resp) ELSE <<>>
        listed == [ctx EXCEPT !.conns[c].tools = Update(@, Discovered(c, Stored(items)))]
    IN  IF Stored(items) # items THEN ConnectRaised(listed, c)
        ELSE IF Writable(c) THEN SendRequest(listed, c, "resources/list", "")
        ELSE Connected([listed EXCEPT !.nextId = @ + 1], c)

\* a discovery that fails the connection when resources/list is not answered
\* with a result
AfterResourcesListStrict(ctx, c, resp) ==
    LET items == IF resp # NoResponse /\ HasResult(resp) THEN Items(resp) ELSE <<>>
        listed == [ctx EXCEPT !.conns[c].resources =
                                 Update(@, Discovered(c, Stored(items)))]
    IN  IF Stored(items) # items THEN ConnectRaised(listed, c)
        ELSE IF resp = NoResponse \/ ~HasResult(resp) THEN ConnectResult(listed, FALSE)
        ELSE Connected(listed, c)

\* _discover_capabilities after resources/list returned resp
AfterResourcesList(ctx, c, resp) ==
    LET items == IF resp # NoResponse /\ HasResult(resp) THEN Items(resp) ELSE <<>>
        listed == [ctx EXCEPT !.conns[c].resources =
                                 Update(@, Discovered(c, Stored(items)))]
    IN  IF Stored(items) # items THEN ConnectRaised(listed, c)
        ELSE Connected(listed, c)

\* call_tool after tools/call returned resp; execute_tool hands it on
AfterToolsCall(ctx, resp) == [ctx EXCEPT !.me = Return(@, CallToolResult(resp))]

\* read_resource after resources/read returned resp
AfterResourcesRead(ctx, resp) == [ctx EXCEPT !.me = Return(@, ReadResourceResult(resp))]

\* _send_request returns resp to the code that awaits it
Resume(ctx, resp) ==
    LET c == ctx.me.req.conn
        seen == [ctx EXCEPT !.me.track.asked = ctx.me.req.id, !.me.track.handed = resp]
    IN  CASE ctx.me.req.method = "initialize" -> AfterInitialize(seen, c, resp)
          [] ctx.me.req.method = "tools/list" -> AfterToolsList(seen, c, resp)
          [] ctx.me.req.method = "resources/list" -> AfterResourcesList(seen, c, resp)
          [] ctx.me.req.method = "resources/read" -> AfterResourcesRead(seen, resp)
          [] OTHER -> AfterToolsCall(seen, resp)

\* a read loop that gives the connection up when a line does not parse
OnLineDropsConnection(ctx, line) ==
    LET c == ctx.me.req.conn
        how == Classify(line, ctx.me.req.id)
    IN  CASE how = "fail" ->
                Resume([ctx EXCEPT !.conns[c].initialized = FALSE], NoResponse)
          [] how = "match" -> Resume(ctx, line)
          [] how = "server_request" ->
                [(IF Writable(c) THEN Write(ctx, c, ServerRequestReply(line)) ELSE ctx)
                    EXCEPT !.me.track.inbound = Append(@, line.method)]
          [] OTHER -> [ctx EXCEPT !.me.track.skipped = Append(@, line.id)]

\* a read loop that gives up at the first message that is not for it
OnLineGivesUp(ctx, line) ==
    LET c == ctx.me.req.conn
        how == Classify(line, ctx.me.req.id)
    IN  CASE how = "fail" -> Resume(ctx, NoResponse)
          [] how = "match" -> Resume(ctx, line)
          [] how = "server_request" ->
                [(IF Writable(c) THEN Write(ctx, c, ServerRequestReply(line)) ELSE ctx)
                    EXCEPT !.me.track.inbound = Append(@, line.method)]
          [] OTHER -> Resume(ctx, NoResponse)

\* one pass of _send_request's read loop over the line it read
OnLine(ctx, line) ==
    LET c == ctx.me.req.conn
        how == Classify(line, ctx.me.req.id)
    IN  CASE how = "fail" -> Resume(ctx, NoResponse)
          [] how = "match" -> Resume(ctx, line)
          [] how = "server_request" ->
                \* _handle_server_request; a failed write is logged and dropped
                [(IF Writable(c) THEN Write(ctx, c, ServerRequestReply(line)) ELSE ctx)
                    EXCEPT !.me.track.inbound = Append(@, line.method)]
          [] OTHER -> [ctx EXCEPT !.me.track.skipped = Append(@, line.id)]

\* ------------------------------------------------------------------ init
\* the server definitions of the configuration manager: the key of a
\* definition and its name field are independent
Configs ==
    {<<[key |-> "math_tool", name |-> n1, enabled |-> e1],
       [key |-> "weather", name |-> "weather", enabled |-> e2]>> :
        n1 \in Names, e1 \in BOOLEAN, e2 \in BOOLEAN}

InitWith(configs, nthreads, ops, offprotocol) ==
    /\ servers \in configs
    /\ conns = <<>>
    /\ proc = <<>>
    /\ stdin = <<>>
    /\ stdout = <<>>
    /\ server_connections = <<>>
    /\ available_tools = EmptyMap
    /\ available_resources = EmptyMap
    /\ client_initialized = FALSE
    /\ wrapper_loop = None
    /\ loops = <<>>
    /\ th = [t \in 1..nthreads |-> IdleThread(ops)]
    /\ nextId = 1
    /\ written = 0
    /\ chaos = offprotocol

\* ------------------------------------------- the synchronous wrapper
\* DynamicMCPClientSync._get_loop up to its test of self._loop, on behalf
\* of the wrapper method op(arg)
Entered(t, op, arg) ==
    LET fresh == wrapper_loop = None \/ loops[wrapper_loop].closed
    IN  [IdleThread(th[t].opsLeft - 1) EXCEPT
            !.op = op, !.arg = arg,
            !.pc = IF fresh THEN "new_loop" ELSE "run",
            !.loop = IF fresh THEN None ELSE wrapper_loop,
            !.track.lines0 = written]

Enter(t, op, arg) ==
        /\ th[t].pc = "idle"
        /\ th[t].opsLeft > 0
        /\ th' = [th EXCEPT ![t] = Entered(t, op, arg)]
        /\ UNCHANGED <<servers, conns, proc, stdin, stdout,
                       server_connections, available_tools, available_resources,
                       client_initialized, wrapper_loop, loops, nextId, written, chaos>>

\* DynamicMCPClientSync.initialize
CallInitialize(t) == Enter(t, "initialize", "")

\* DynamicMCPClientSync.execute_tool
CallExecuteTool(t, name) == Enter(t, "execute_tool", name)

\* _get_loop: new_event_loop, the assignment to self._loop, the return
GetLoopCreate(t) ==
    /\ th[t].pc = "new_loop"
    /\ loops' = Append(loops, [running |-> None, closed |-> FALSE])
    /\ wrapper_loop' = Len(loops) + 1
    /\ th' = [th EXCEPT ![t].pc = "run", ![t].loop = Len(loops) + 1]
    /\ UNCHANGED <<servers, conns, proc, stdin, stdout,
                   server_connections, available_tools, available_resources,
                   client_initialized, nextId, written, chaos>>

\* loop.run_until_complete: RuntimeError on a closed loop and on a loop
\* another thread is running, else the coroutine starts
RunUntilComplete(t) ==
    /\ th[t].pc = "run"
    /\ IF loops[th[t].loop].closed \/ loops[th[t].loop].running # None
       THEN /\ th' = [th EXCEPT ![t] = [Return(@, Raised) EXCEPT !.loop = None]]
            /\ UNCHANGED loops
       ELSE /\ th' = [th EXCEPT ![t].pc = "coro"]
            /\ loops' = [loops EXCEPT ![th[t].loop].running = t]
    /\ UNCHANGED <<servers, conns, proc, stdin, stdout,
                   server_connections, available_tools, available_resources,
                   client_initialized, wrapper_loop, nextId, written, chaos>>

\* ------------------------------------------------------ DynamicMCPClient
\* the three getters that initialize lazily
Getters == {"get_available_tools", "get_available_resources", "get_tools_description"}
MappingGetters == {"get_available_tools", "get_available_resources"}

\* the first line of get_tools_description's text
DescriptionText(tools) ==
    IF tools = EmptyMap THEN "No MCP servers are currently connected."
    ELSE "Available tools from connected MCP servers:"

ReturnedAlias(getter, tools, resources) ==
    CASE getter = "get_available_tools" -> [ref |-> "catalog", value |-> tools]
      [] getter = "get_available_resources" -> [ref |-> "catalog", value |-> resources]
      [] OTHER -> [ref |-> "str", value |-> tools]

\* what a getter returns from the catalogs it finds: .copy() of the mapping,
\* or the description built from the tools
Returned(getter, tools, resources) ==
    CASE getter = "get_available_tools" -> [ref |-> "copy", value |-> tools]
      [] getter = "get_available_resources" -> [ref |-> "copy", value |-> resources]
      [] OTHER -> [ref |-> "str", value |-> tools]

\* the value of a finished getter
GetterValue(getter, tools) ==
    Value(TRUE, getter, IF getter = "get_tools_description"
                        THEN DescriptionText(tools) ELSE "")

NeedsInitializeWhenEmpty == available_tools = EmptyMap

\* the test "if not self._initialized" of the getters
NeedsInitialize == ~client_initialized

\* a getter: an uninitialized registry runs initialize() under asyncio.run,
\* a loop of its own; an initialized one returns at once
CallGetter(t, getter) ==
    /\ th[t].pc = "idle"
    /\ th[t].opsLeft > 0
    /\ th' = [th EXCEPT ![t] =
                IF ~NeedsInitialize
                THEN [IdleThread(th[t].opsLeft - 1) EXCEPT
                        !.op = getter,
                        !.held = Returned(getter, available_tools, available_resources),
                        !.ret = GetterValue(getter, available_tools)]
                ELSE [IdleThread(th[t].opsLeft - 1) EXCEPT
                        !.op = getter, !.pc = "coro",
                        !.track.lines0 = written]]
    /\ UNCHANGED <<servers, conns, proc, stdin, stdout,
                   server_connections, available_tools, available_resources,
                   client_initialized, wrapper_loop, loops, nextId, written, chaos>>

CallGetAvailableTools(t) == CallGetter(t, "get_available_tools")
CallGetAvailableResources(t) == CallGetter(t, "get_available_resources")
CallGetToolsDescription(t) == CallGetter(t, "get_tools_description")

\* the caller of a mapping getter adds, removes or replaces a key of the
\* mapping it was handed
Mutated(m, kind, k) ==
    CASE kind = "remove" -> [x \in DOMAIN m \ {k} |-> m[x]]
      [] OTHER -> [x \in DOMAIN m \cup {k} |->
                      IF x = k THEN [server_name |-> "caller", conn |-> None] ELSE m[x]]

MutateReturned(t, kind, k) ==
    LET me == th[t]
        m == Mutated(me.held.value, kind, k)
        aliased == me.held.ref = "catalog"
    IN  /\ me.pc = "idle"
        /\ me.opsLeft > 0
        /\ me.held.ref \in {"copy", "catalog"}
        /\ CASE kind = "add" -> k \notin DOMAIN me.held.value
             [] OTHER -> k \in DOMAIN me.held.value
        /\ th' = [th EXCEPT ![t].held.value = m, ![t].opsLeft = me.opsLeft - 1]
        /\ available_tools' =
              IF aliased /\ me.op = "get_available_tools" THEN m ELSE available_tools
        /\ available_resources' =
              IF aliased /\ me.op = "get_available_resources" THEN m
              ELSE available_resources
        /\ UNCHANGED <<servers, conns, proc, stdin, stdout, server_connections,
                       client_initialized, wrapper_loop, loops, nextId, written, chaos>>

\* initialize: one connection object per enabled server, entered in the map
InitializeBegin(t) ==
    LET enabled == EnabledServers
        base == Len(conns)
        fresh == [j \in 1..Len(enabled) |-> NewConnection(enabled[j])]
    IN  /\ th[t].pc = "coro"
        /\ th[t].op \in {"initialize"} \cup Getters
        /\ conns' = conns \o fresh
        /\ proc' = proc \o [j \in 1..Len(enabled) |-> "unspawned"]
        /\ stdin' = stdin \o [j \in 1..Len(enabled) |-> <<>>]
        /\ stdout' = stdout \o [j \in 1..Len(enabled) |-> <<>>]
        /\ server_connections' = Register(server_connections, enabled, base, 1)
        /\ th' = [th EXCEPT ![t].pc = "connect",
                            ![t].todo = [j \in 1..Len(enabled) |-> base + j],
                            ![t].results = <<>>]
        /\ UNCHANGED <<servers, available_tools, available_resources,
                       client_initialized, wrapper_loop, loops, nextId, written, chaos>>

\* connect / _connect_stdio of the next connection, up to the read loop of
\* its initialize request: a transport other than stdio returns False
\* before anything is spawned; Popen either raises (no process, connect
\* returns False) or yields the subprocess
ConnectStart(t) ==
    /\ th[t].pc = "connect"
    /\ th[t].todo # <<>>
    /\ \E spawned \in IF ConfigTransport(Head(th[t].todo)) = "stdio"
                      THEN BOOLEAN ELSE {FALSE} :
        LET c == Head(th[t].todo)
            new == IF spawned
                   THEN SendRequest([Ctx(th[t]) EXCEPT !.conns[c].process = TRUE],
                                    c, "initialize", "")
                   ELSE ConnectResult(Ctx(th[t]), FALSE)
        IN  /\ conns' = new.conns
            /\ stdin' = new.stdin
            /\ nextId' = new.nextId
            /\ written' = new.written
            /\ th' = [th EXCEPT ![t] = new.me]
            /\ proc' = IF spawned THEN [proc EXCEPT ![c] = "running"] ELSE proc
    /\ UNCHANGED <<servers, stdout, server_connections, available_tools,
                   available_resources, client_initialized, wrapper_loop, loops,
                   chaos>>

\* a count of the attempts instead of the successes
AttemptCount(results) == Len(results)

\* sum(1 for r in results if r is True)
SuccessCount(results) == Cardinality({i \in DOMAIN results : results[i]})

\* initialize after gather: merge the catalogs, set the flag, return
InitializeAggregate(t) ==
    LET me == th[t]
        success_count == SuccessCount(me.results)
        tools == Aggregate(available_tools, server_connections, 1, "tools")
        resources == Aggregate(available_resources, server_connections, 1, "resources")
        done == IF me.op \in Getters
                THEN Return([me EXCEPT !.held = Returned(me.op, tools, resources)],
                            GetterValue(me.op, tools))
                ELSE Return(me, Value(success_count > 0, me.op, ""))
    IN  /\ me.pc = "connect"
        /\ me.todo = <<>>
        /\ available_tools' = tools
        /\ available_resources' = resources
        /\ client_initialized' = TRUE
        /\ th' = [th EXCEPT ![t] = done]
        /\ loops' = Release(loops, me, done)
        /\ UNCHANGED <<servers, conns, proc, stdin, stdout,
                       server_connections, wrapper_loop, nextId, written, chaos>>

\* execute_tool's lookup with both guards merged into one failure
RouteOneFailure(name) ==
    LET known == name \in DOMAIN available_tools
        connection == IF known
                      THEN ConnectionOf(server_connections, available_tools[name].server_name)
                      ELSE None
    IN  IF ~known \/ connection = None \/ ~conns[connection].initialized
        THEN [verdict |-> "not_connected", connection |-> None,
              server_name |-> IF known THEN available_tools[name].server_name ELSE name]
        ELSE [verdict |-> "call", connection |-> connection,
              server_name |-> available_tools[name].server_name]

\* execute_tool's lookup without the test of the connection's flag
RouteAnyConnection(name) ==
    LET known == name \in DOMAIN available_tools
        connection == IF known
                      THEN ConnectionOf(server_connections, available_tools[name].server_name)
                      ELSE None
    IN  IF ~known
        THEN [verdict |-> "not_found", connection |-> None, server_name |-> ""]
        ELSE IF connection = None
        THEN [verdict |-> "not_connected", connection |-> None,
              server_name |-> available_tools[name].server_name]
        ELSE [verdict |-> "call", connection |-> connection,
              server_name |-> available_tools[name].server_name]

\* execute_tool's lookup: the catalog entry of the name, then the
\* connection registered under the entry's server name
Route(name) ==
    LET known == name \in DOMAIN available_tools
        connection == IF known
                      THEN ConnectionOf(server_connections, available_tools[name].server_name)
                      ELSE None
    IN  IF ~known
        THEN [verdict |-> "not_found", connection |-> None, server_name |-> ""]
        ELSE IF connection = None \/ ~conns[connection].initialized
        THEN [verdict |-> "not_connected", connection |-> None,
              server_name |-> available_tools[name].server_name]
        ELSE [verdict |-> "call", connection |-> connection,
              server_name |-> available_tools[name].server_name]

\* a call_tool that sends whatever name it is given
CallToolUnguarded(ctx, connection, name) ==
    IF Writable(connection)
    THEN [SendRequest(ctx, connection, "tools/call", name)
             EXCEPT !.me.track.sentTo = connection]
    ELSE [ctx EXCEPT !.nextId = @ + 1,
                     !.me = Return(@, CallToolResult(NoResponse))]

\* MCPServerConnection.call_tool up to the read loop of its request
CallTool(ctx, connection, name) ==
    IF ~conns[connection].initialized
          \/ name \notin DOMAIN conns[connection].tools
    THEN [ctx EXCEPT !.me = Return(@, Value(FALSE, "Tool not available on server",
                                            conns[connection].name))]
    ELSE IF Writable(connection)
    THEN [SendRequest(ctx, connection, "tools/call", name)
             EXCEPT !.me.track.sentTo = connection]
    ELSE [ctx EXCEPT !.nextId = @ + 1,
                     !.me = Return(@, CallToolResult(NoResponse))]

\* MCPServerConnection.read_resource up to the read loop of its request
ReadResource(ctx, connection, uri) ==
    IF ~conns[connection].initialized
          \/ uri \notin DOMAIN conns[connection].resources
    THEN [ctx EXCEPT !.me = Return(@, Value(FALSE, "Resource not available on server",
                                            conns[connection].name))]
    ELSE IF Writable(connection)
    THEN [SendRequest(ctx, connection, "resources/read", uri)
             EXCEPT !.me.track.sentTo = connection]
    ELSE [ctx EXCEPT !.nextId = @ + 1,
                     !.me = Return(@, ReadResourceResult(NoResponse))]

\* execute_tool, and call_tool up to the read loop of its request
ExecuteToolBody(me) ==
    LET name == me.arg
        known == name \in DOMAIN available_tools
        tool == available_tools[name]
        owner == IF known THEN ConnectionOf(server_connections, tool.server_name) ELSE None
        route == Route(name)
        connection == route.connection
        seen == [me EXCEPT
                   !.track.inCatalog = known,
                   !.track.disc = IF known THEN tool.conn ELSE None,
                   !.track.discInit = known /\ conns[tool.conn].initialized,
                   !.track.discLive = known /\ Writable(tool.conn),
                   !.track.server_name = IF known THEN tool.server_name ELSE "",
                   !.track.owner = owner,
                   !.track.ownerInit = owner # None /\ conns[owner].initialized]
        ctx == Ctx(seen)
    IN  IF route.verdict = "not_found"
        THEN [ctx EXCEPT !.me = Return(@, Value(FALSE, "Tool not found", name))]
        ELSE IF route.verdict = "not_connected"
        THEN [ctx EXCEPT !.me = Return(@, Value(FALSE, "Server not connected",
                                                route.server_name))]
        ELSE CallTool(ctx, connection, name)

\* an execute_tool that drops from the catalog a tool it could not forward
ExecuteToolEvicting(t) ==
    LET new == ExecuteToolBody(th[t])
    IN  /\ th[t].pc = "coro"
        /\ th[t].op = "execute_tool"
        /\ stdin' = new.stdin
        /\ nextId' = new.nextId
        /\ written' = new.written
        /\ th' = [th EXCEPT ![t] = new.me]
        /\ loops' = Release(loops, th[t], new.me)
        /\ available_tools' =
              IF new.me.pc = "idle" /\ ~new.me.ret.ok
              THEN [k \in DOMAIN available_tools \ {th[t].arg} |-> available_tools[k]]
              ELSE available_tools
        /\ UNCHANGED <<servers, conns, proc, stdout, server_connections,
                       available_resources, client_initialized,
                       wrapper_loop, chaos>>

\* the coroutine DynamicMCPClient.execute_tool, run by the wrapper's loop
ExecuteTool(t) ==
    LET new == ExecuteToolBody(th[t])
    IN  /\ th[t].pc = "coro"
        /\ th[t].op = "execute_tool"
        /\ stdin' = new.stdin
        /\ nextId' = new.nextId
        /\ written' = new.written
        /\ th' = [th EXCEPT ![t] = new.me]
        /\ loops' = Release(loops, th[t], new.me)
        /\ UNCHANGED <<servers, conns, proc, stdout, server_connections,
                       available_tools, available_resources, client_initialized,
                       wrapper_loop, chaos>>

\* _send_request's read loop: readline blocks while the pipe is open and
\* empty; an empty read (end of stream) and any exception return None
ReadLine(t) ==
    LET me == th[t]
        c == me.req.conn
        gone == ~conns[c].process
        eof == stdout[c] = <<>>
        new == IF gone \/ eof THEN Resume(Ctx(me), NoResponse)
               ELSE OnLine(Ctx(me), Head(stdout[c]))
    IN  /\ me.pc = "wait"
        /\ gone \/ ~eof \/ proc[c] # "running"
        /\ stdout' = IF gone \/ eof THEN stdout ELSE [stdout EXCEPT ![c] = Tail(@)]
        /\ conns' = new.conns
        /\ stdin' = new.stdin
        /\ nextId' = new.nextId
        /\ written' = new.written
        /\ th' = [th EXCEPT ![t] = new.me]
        /\ proc' = new.proc
        /\ loops' = Release(loops, me, new.me)
        /\ UNCHANGED <<servers, server_connections, available_tools,
                       available_resources, client_initialized, wrapper_loop, chaos>>

\* a disconnect that drops the process handle and keeps the flag
DisconnectedKeepFlag(cs) ==
    [i \in DOMAIN conns |->
        IF i \in cs THEN [conns[i] EXCEPT !.process = FALSE] ELSE conns[i]]

\* a disconnect that passes over the connections that are not initialized
DisconnectedInitializedOnly(cs) ==
    [i \in DOMAIN conns |->
        IF i \in cs /\ conns[i].initialized
        THEN [conns[i] EXCEPT !.process = FALSE, !.initialized = FALSE]
        ELSE conns[i]]

\* MCPServerConnection.disconnect on each connection of cs
Disconnected(cs) ==
    [i \in DOMAIN conns |->
        IF i \in cs THEN [conns[i] EXCEPT !.process = FALSE, !.initialized = FALSE]
        ELSE conns[i]]
\* terminate(), wait(timeout=5) and, for the subprocesses of slow that do
\* not exit within the grace period, kill()
Terminated(cs, slow) ==
    [i \in DOMAIN proc |->
        IF i \in cs /\ conns[i].process
        THEN IF i \in slow /\ proc[i] = "running" THEN "killed" ELSE "terminated"
        ELSE proc[i]]


\* a caller holding a connection of the registry calls its disconnect()
CallDisconnect(t, c) ==
    /\ th[t].pc = "idle"
    /\ th[t].opsLeft > 0
    /\ c \in {server_connections[i].conn : i \in DOMAIN server_connections}
    /\ conns' = Disconnected({c})
    /\ \E slow \in SUBSET {c} : proc' = Terminated({c}, slow)
    /\ th' = [th EXCEPT ![t] = [IdleThread(th[t].opsLeft - 1) EXCEPT
                                  !.op = "disconnect", !.target = c,
                                  !.track.discLive = conns[c].process,
                                  !.track.ownerInit = conns[c].initialized,
                                  !.ret = Value(TRUE, "disconnect", "")]]
    /\ UNCHANGED <<servers, stdin, stdout, server_connections,
                   available_tools, available_resources, client_initialized,
                   wrapper_loop, loops, nextId, written, chaos>>

\* a cleanup that leaves the two catalogs as they are
CallCleanupKeepsCatalogs(t) ==
    LET open == wrapper_loop # None /\ ~loops[wrapper_loop].closed
        busy == open /\ loops[wrapper_loop].running # None
        all == {server_connections[i].conn : i \in DOMAIN server_connections}
        after == [IdleThread(th[t].opsLeft - 1) EXCEPT !.op = "cleanup"]
    IN  /\ th[t].pc = "idle"
        /\ th[t].opsLeft > 0
        /\ IF busy
           THEN /\ th' = [th EXCEPT ![t] = [after EXCEPT !.ret = Raised]]
                /\ UNCHANGED <<conns, proc, server_connections, available_tools,
                               available_resources, client_initialized,
                               wrapper_loop, loops>>
           ELSE IF open
           THEN /\ conns' = Disconnected(all)
                /\ \E slow \in SUBSET all : proc' = Terminated(all, slow)
                /\ server_connections' = <<>>
                /\ UNCHANGED <<available_tools, available_resources>>
                /\ client_initialized' = FALSE
                /\ loops' = [loops EXCEPT ![wrapper_loop].closed = TRUE]
                /\ wrapper_loop' = None
                /\ th' = [th EXCEPT ![t] = [after EXCEPT !.ret = Value(TRUE, "cleanup", "")]]
           ELSE /\ wrapper_loop' = None
                /\ th' = [th EXCEPT ![t] = [after EXCEPT !.ret = Value(TRUE, "cleanup", "")]]
                /\ UNCHANGED <<conns, proc, server_connections, available_tools,
                               available_resources, client_initialized, loops>>
        /\ UNCHANGED <<servers, stdin, stdout, nextId, written, chaos>>

\* DynamicMCPClientSync.cleanup, with DynamicMCPClient.cleanup inside it
CallCleanup(t) ==
    LET open == wrapper_loop # None /\ ~loops[wrapper_loop].closed
        busy == open /\ loops[wrapper_loop].running # None
        all == {server_connections[i].conn : i \in DOMAIN server_connections}
        after == [IdleThread(th[t].opsLeft - 1) EXCEPT !.op = "cleanup"]
    IN  /\ th[t].pc = "idle"
        /\ th[t].opsLeft > 0
        /\ IF busy
           THEN /\ th' = [th EXCEPT ![t] = [after EXCEPT !.ret = Raised]]
                /\ UNCHANGED <<conns, proc, server_connections, available_tools,
                               available_resources, client_initialized,
                               wrapper_loop, loops>>
           ELSE IF open
           THEN /\ conns' = Disconnected(all)
                /\ \E slow \in SUBSET all : proc' = Terminated(all, slow)
                /\ server_connections' = <<>>
                /\ available_tools' = EmptyMap
                /\ available_resources' = EmptyMap
                /\ client_initialized' = FALSE
                /\ loops' = [loops EXCEPT ![wrapper_loop].closed = TRUE]
                /\ wrapper_loop' = None
                /\ th' = [th EXCEPT ![t] = [after EXCEPT !.ret = Value(TRUE, "cleanup", "")]]
           ELSE /\ wrapper_loop' = None
                /\ th' = [th EXCEPT ![t] = [after EXCEPT !.ret = Value(TRUE, "cleanup", "")]]
                /\ UNCHANGED <<conns, proc, server_connections, available_tools,
                               available_resources, client_initialized, loops>>
        /\ UNCHANGED <<servers, stdin, stdout, nextId, written, chaos>>

\* a caller holding connection c awaits its call_tool(name, ...)
CallConnectionCallTool(t, c, name) ==
    LET me == [IdleThread(th[t].opsLeft - 1) EXCEPT
                  !.op = "call_tool", !.arg = name, !.target = c,
                  !.track.lines0 = written,
                  !.track.inCatalog = name \in DOMAIN conns[c].tools,
                  !.track.ownerInit = conns[c].initialized]
        new == CallTool(Ctx(me), c, name)
    IN  /\ th[t].pc = "idle"
        /\ th[t].opsLeft > 0
        /\ stdin' = new.stdin
        /\ nextId' = new.nextId
        /\ written' = new.written
        /\ th' = [th EXCEPT ![t] = new.me]
        /\ UNCHANGED <<servers, conns, proc, stdout, server_connections,
                       available_tools, available_resources, client_initialized,
                       wrapper_loop, loops, chaos>>

\* a caller holding connection c awaits its read_resource(uri)
CallConnectionReadResource(t, c, uri) ==
    LET me == [IdleThread(th[t].opsLeft - 1) EXCEPT
                  !.op = "conn_read_resource", !.arg = uri, !.target = c,
                  !.track.lines0 = written,
                  !.track.inCatalog = uri \in DOMAIN conns[c].resources,
                  !.track.ownerInit = conns[c].initialized]
        new == ReadResource(Ctx(me), c, uri)
    IN  /\ th[t].pc = "idle"
        /\ th[t].opsLeft > 0
        /\ stdin' = new.stdin
        /\ nextId' = new.nextId
        /\ written' = new.written
        /\ th' = [th EXCEPT ![t] = new.me]
        /\ UNCHANGED <<servers, conns, proc, stdout, server_connections,
                       available_tools, available_resources, client_initialized,
                       wrapper_loop, loops, chaos>>

\* DynamicMCPClientSync.read_resource
CallReadResource(t, uri) == Enter(t, "read_resource", uri)

\* DynamicMCPClient.read_resource, and the connection's read_resource up to
\* the read loop of its request
RegistryReadResourceBody(me) ==
    LET uri == me.arg
        known == uri \in DOMAIN available_resources
        resource == available_resources[uri]
        connection == IF known
                      THEN ConnectionOf(server_connections, resource.server_name)
                      ELSE None
        seen == [me EXCEPT
                   !.track.inCatalog = known,
                   !.track.disc = IF known THEN resource.conn ELSE None,
                   !.track.server_name = IF known THEN resource.server_name ELSE "",
                   !.track.owner = connection,
                   !.track.ownerInit = connection # None /\ conns[connection].initialized]
        ctx == Ctx(seen)
    IN  IF ~known
        THEN [ctx EXCEPT !.me = Return(@, Value(FALSE, "Resource not found", uri))]
        ELSE IF connection = None \/ ~conns[connection].initialized
        THEN [ctx EXCEPT !.me = Return(@, Value(FALSE, "Server not connected",
                                                resource.server_name))]
        ELSE ReadResource(ctx, connection, uri)

\* the coroutine DynamicMCPClient.read_resource, run by the wrapper's loop
RegistryReadResource(t) ==
    LET new == RegistryReadResourceBody(th[t])
    IN  /\ th[t].pc = "coro"
        /\ th[t].op = "read_resource"
        /\ stdin' = new.stdin
        /\ nextId' = new.nextId
        /\ written' = new.written
        /\ th' = [th EXCEPT ![t] = new.me]
        /\ loops' = Release(loops, th[t], new.me)
        /\ UNCHANGED <<servers, conns, proc, stdout, server_connections,
                       available_tools, available_resources, client_initialized,
                       wrapper_loop, chaos>>

\* ------------------------------------------------------- the providers
IsRequest(line) == line.kind = "obj" /\ line.method # "" /\ line.hasId

\* the requests connection c's subprocess has been sent
Sent(c) == {stdin[c][i] : i \in {j \in DOMAIN stdin[c] : IsRequest(stdin[c][j])}}

\* index of the oldest request waiting in the provider's input, or 0
NextRequest(c) ==
    LET waiting == {i \in DOMAIN stdin[c] : IsRequest(stdin[c][i])}
    IN  IF waiting = {} THEN 0 ELSE CHOOSE i \in waiting : \A j \in waiting : i <= j

\* the answers of a provider that follows the protocol
Answers(request) ==
    CASE request.method = "initialize" ->
            {Response(request.id, "other", <<>>, "capabilities"),
             ErrorResponse(request.id, -1, "unsupported")}
      [] request.method = "tools/list" ->
            {Response(request.id, "content", l, "") : l \in ToolLists}
            \cup {ErrorResponse(request.id, -1, "unsupported")}
      [] request.method = "resources/list" ->
            {Response(request.id, "content", l, "") : l \in ResourceLists}
      [] request.method = "resources/read" ->
            {Response(request.id, "contents", <<Item("text", "hello")>>, ""),
             ErrorResponse(request.id, -1, "no such file")}
      [] OTHER ->
            {Response(request.id, "content", <<Item("text", "4")>>, ""),
             ErrorResponse(request.id, -1, "division by zero")}

\* the content lists a provider may answer a call or a read with
ContentLists ==
    {<<>>, <<Item("text", "4")>>,
     <<Item("text", "4"), Item("image", "png"), Item("text", "5")>>}

\* the answers to tools/call and resources/read in every shape of a
\* well-formed response
ShapedAnswers(request) ==
    {Response(request.id, shape, items, "") :
        shape \in {"content", "contents"}, items \in ContentLists}
    \cup {Response(request.id, "other", <<>>, "sum"),
          Response(request.id, "none", <<>>, ""),
          ErrorResponse(request.id, -1, "division by zero"),
          [ErrorResponse(request.id, -1, "") EXCEPT !.shape = "error_nomsg"]}

\* the provider reads its input up to its oldest request, a tools/call or a
\* resources/read, and answers it in any shape
ProviderServeShaped(c) ==
    /\ proc[c] = "running"
    /\ NextRequest(c) # 0
    /\ stdin[c][NextRequest(c)].method \in {"tools/call", "resources/read"}
    /\ \E line \in ShapedAnswers(stdin[c][NextRequest(c)]) :
          stdout' = [stdout EXCEPT ![c] = Append(@, line)]
    /\ stdin' = [stdin EXCEPT ![c] = SubSeq(@, NextRequest(c) + 1, Len(@))]
    /\ UNCHANGED <<servers, conns, proc, server_connections, available_tools,
                   available_resources, client_initialized, wrapper_loop, loops,
                   th, nextId, written, chaos>>

\* the provider reads its input up to its oldest request and answers it
ProviderServe(c) ==
    /\ proc[c] = "running"
    /\ NextRequest(c) # 0
    /\ \E line \in Answers(stdin[c][NextRequest(c)]) :
          stdout' = [stdout EXCEPT ![c] = Append(@, line)]
    /\ stdin' = [stdin EXCEPT ![c] = SubSeq(@, NextRequest(c) + 1, Len(@))]
    /\ UNCHANGED <<servers, conns, proc, server_connections, available_tools,
                   available_resources, client_initialized, wrapper_loop, loops,
                   th, nextId, written, chaos>>

\* the provider answers a list request with a list holding an entry that
\* lacks its "name" ("uri") key, after none or one well-formed entry
MalformedLists(request) ==
    IF request.method = "tools/list"
    THEN {Response(request.id, "content", l, "") : l \in {<<Nameless>>, <<"add", Nameless>>}}
    ELSE {Response(request.id, "content", l, "") : l \in {<<"file:///a", Nameless>>}}

ProviderServeMalformed(c) ==
    /\ proc[c] = "running"
    /\ NextRequest(c) # 0
    /\ stdin[c][NextRequest(c)].method \in {"tools/list", "resources/list"}
    /\ \E line \in MalformedLists(stdin[c][NextRequest(c)]) :
          stdout' = [stdout EXCEPT ![c] = Append(@, line)]
    /\ stdin' = [stdin EXCEPT ![c] = SubSeq(@, NextRequest(c) + 1, Len(@))]
    /\ UNCHANGED <<servers, conns, proc, server_connections, available_tools,
                   available_resources, client_initialized, wrapper_loop, loops,
                   th, nextId, written, chaos>>

\* lines outside the request/response script: requests of the provider's
\* own, notifications, unparsable lines, responses nobody waits for, and
\* results of other shapes
OffProtocol(c) ==
    LET ids == {r.id : r \in Sent(c)}
    IN  {BadLine, Notification("notifications/message")}
        \cup {Request(i, m, "") : i \in ids \cup {-1},
                                  m \in {"roots/list", "sampling/createMessage"}}
        \cup {Response(i, s, <<>>, "late") : i \in ids \cup {-1},
                                            s \in {"content", "other", "none"}}

ProviderEmit(c) ==
    /\ proc[c] = "running"
    /\ chaos > 0
    /\ chaos' = chaos - 1
    /\ \E line \in OffProtocol(c) :
          stdout' = [stdout EXCEPT ![c] = Append(@, line)]
    /\ UNCHANGED <<servers, conns, proc, stdin, server_connections,
                   available_tools, available_resources, client_initialized,
                   wrapper_loop, loops, th, nextId, written>>

\* the provider exits: its output ends after what it wrote, its input
\* breaks.  It dies over a request it has not answered, or unprompted.
ProviderExit(c) ==
    /\ proc[c] = "running"
    /\ NextRequest(c) # 0 \/ chaos > 0
    /\ chaos' = IF NextRequest(c) # 0 THEN chaos ELSE chaos - 1
    /\ proc' = [proc EXCEPT ![c] = "exited"]
    /\ UNCHANGED <<servers, conns, stdin, stdout, server_connections,
                   available_tools, available_resources, client_initialized,
                   wrapper_loop, loops, th, nextId, written>>

\* ------------------------------------------------------- specifications
\* The registry under every configuration: one caller initializes it while
\* it is not initialized (app.py calls initialize() once per session), calls
\* its tools, disconnects connections and cleans up; the providers follow
\* the protocol or exit.
Next ==
    \/ \E t \in Threads : ~client_initialized /\ CallInitialize(t)
    \/ \E t \in Threads, name \in ToolNames : CallExecuteTool(t, name)
    \/ \E t \in Threads : GetLoopCreate(t)
    \/ \E t \in Threads : RunUntilComplete(t)
    \/ \E t \in Threads : InitializeBegin(t)
    \/ \E t \in Threads : ConnectStart(t)
    \/ \E t \in Threads : InitializeAggregate(t)
    \/ \E t \in Threads : ExecuteTool(t)
    \/ \E t \in Threads : ReadLine(t)
    \/ \E t \in Threads, c \in DOMAIN conns : CallDisconnect(t, c)
    \/ \E t \in Threads : CallCleanup(t)
    \/ \E c \in DOMAIN conns : ProviderServe(c)
    \/ \E c \in DOMAIN conns : ProviderExit(c)

Init == InitWith(Configs, 1, MaxOps, 0)
Spec == Init /\ [][Next]_vars

\* ------------------------------------------------------------ properties
\* thread t has returned from operation op
Finished(t, op) == th[t].op = op /\ th[t].pc = "idle" /\ th[t].ret.kind # "none"

\* the connections of the registry's map
Registered == {server_connections[i].conn : i \in DOMAIN server_connections}

\* C1: after initialize(), for every configuration, execute_tool on a
\* catalog tool whose discovering connection is initialized (and whose
\* subprocess is alive) sends the tools/call to that connection and returns
\* that connection's call_tool result.
C1_RoutesToDiscoverer ==
    \A t \in Threads :
        (/\ th[t].op = "execute_tool"
         /\ th[t].pc \in {"wait", "idle"}
         /\ th[t].track.inCatalog
         /\ th[t].track.discInit
         /\ th[t].track.discLive)
        => /\ th[t].track.sentTo = th[t].track.disc
           /\ th[t].pc = "idle" => th[t].ret = CallToolResult(th[t].track.handed)

\* C2: execute_tool on a name that is no key of the catalog returns
\* (false, "Tool <name> not found"), writes no line to any subprocess and
\* raises nothing.
C2_UnknownTool ==
    \A t \in Threads :
        (Finished(t, "execute_tool") /\ ~th[t].track.inCatalog)
        => /\ th[t].ret = Value(FALSE, "Tool not found", th[t].arg)
           /\ written = th[t].track.lines0
           /\ th[t].track.sentTo = None

C2_Witness ==
    \E t \in Threads :
        /\ Finished(t, "execute_tool")
        /\ th[t].arg = "multiply"
        /\ DOMAIN available_tools = {"add", "sub"}
        /\ th[t].ret = Value(FALSE, "Tool not found", "multiply")

\* C3: execute_tool on a catalog name whose owning connection (the one
\* registered under the entry's server name) is not initialized returns
\* (false, "Server <server> not connected"), a message other than the
\* unknown-tool one, and writes no line to any subprocess.
C3_NotConnected ==
    \A t \in Threads :
        (/\ Finished(t, "execute_tool")
         /\ th[t].track.inCatalog
         /\ th[t].track.owner # None
         /\ ~th[t].track.ownerInit)
        => /\ th[t].ret = Value(FALSE, "Server not connected", th[t].track.server_name)
           /\ th[t].ret.msg # "Tool not found"
           /\ written = th[t].track.lines0
           /\ th[t].track.sentTo = None

\* the owner was initialized, discovered the tool, and was disconnected
C3_Witness ==
    \E t \in Threads :
        /\ Finished(t, "execute_tool")
        /\ th[t].track.inCatalog
        /\ th[t].track.owner # None
        /\ th[t].track.owner = th[t].track.disc
        /\ ~th[t].track.ownerInit
        /\ proc[th[t].track.owner] = "terminated"
        /\ th[t].ret.msg = "Server not connected"

\* the connection aggregated last among those that hold the tool
LastOffering(name) ==
    LET offering == {i \in DOMAIN server_connections :
                        name \in DOMAIN conns[server_connections[i].conn].tools}
    IN  server_connections[CHOOSE i \in offering : \A j \in offering : j <= i].conn

\* C4: the catalog holds one entry per tool name, the entry is the one of
\* the connection aggregated last among those offering the name, and
\* execute_tool's lookup of the name resolves to that connection.
C4_LastWriterRoutes ==
    \A t \in Threads :
        Finished(t, "initialize") =>
            \A name \in DOMAIN available_tools :
                /\ available_tools[name].conn = LastOffering(name)
                /\ available_tools[name].server_name = conns[LastOffering(name)].name
                /\ ConnectionOf(server_connections, available_tools[name].server_name)
                      = LastOffering(name)

\* the connections of the map that initialize() connected
Succeeded == {c \in Registered : conns[c].initialized}

\* C5: when one of several enabled servers fails to spawn or fails its
\* handshake, initialize() still gets a result from every connection,
\* returns true if a sibling succeeded, the catalog holds exactly the tools
\* of the connections that succeeded, and execute_tool on any other tool
\* returns (false, ...) without raising.
C5_PartialFailure ==
    \A t \in Threads :
        /\ Finished(t, "initialize") =>
              /\ Len(th[t].results) = Len(EnabledServers)
              /\ Cardinality(Registered) = Len(EnabledServers)
              /\ Succeeded # {} => th[t].ret.ok
              /\ DOMAIN available_tools = UNION {DOMAIN conns[c].tools : c \in Succeeded}
        /\ (/\ Finished(t, "execute_tool")
            /\ th[t].arg \notin UNION {DOMAIN conns[c].tools : c \in Registered})
           => th[t].ret.kind = "value" /\ ~th[t].ret.ok

\* two servers enabled, the first failed, the second serves its tools
C5_Witness ==
    \E t \in Threads :
        /\ Finished(t, "initialize")
        /\ th[t].results = <<FALSE, TRUE>>
        /\ th[t].ret.ok
        /\ DOMAIN available_tools = {"add"}

\* C6: initialize() returns true exactly when one of its connection
\* attempts ended initialized; with no enabled server or only failures it
\* returns false.
C6_ReturnsTrueIffOneSucceeded ==
    \A t \in Threads :
        Finished(t, "initialize") =>
            /\ th[t].ret.kind = "value"
            /\ th[t].ret.ok <=> (\E c \in Registered : conns[c].initialized)
            /\ EnabledServers = <<>> => ~th[t].ret.ok

\* two servers enabled and both attempts failed
C6_Witness ==
    \E t \in Threads :
        /\ Finished(t, "initialize")
        /\ th[t].results = <<FALSE, FALSE>>
        /\ ~th[t].ret.ok


\* ------------------------------------------------------------------------
\* One connection against a provider that also emits lines outside the
\* request/response script.
WireConfigs == {<<[key |-> "math_tool", name |-> "math_tool", enabled |-> TRUE]>>}

NextWire ==
    \/ \E t \in Threads : ~client_initialized /\ CallInitialize(t)
    \/ \E t \in Threads : CallExecuteTool(t, "add")
    \/ \E t \in Threads : GetLoopCreate(t)
    \/ \E t \in Threads : RunUntilComplete(t)
    \/ \E t \in Threads : InitializeBegin(t)
    \/ \E t \in Threads : ConnectStart(t)
    \/ \E t \in Threads : InitializeAggregate(t)
    \/ \E t \in Threads : ExecuteTool(t)
    \/ \E t \in Threads : ReadLine(t)
    \/ \E c \in DOMAIN conns : ProviderServe(c)
    \/ \E c \in DOMAIN conns : ProviderEmit(c)
    \/ \E c \in DOMAIN conns : ProviderExit(c)

InitWire == InitWith(WireConfigs, 1, WireOps, MaxChaos)
SpecWire == InitWire /\ [][NextWire]_vars

\* thread t, waiting for a response, reads the next line of its connection
Reads(t) ==
    /\ th[t].pc = "wait"
    /\ conns[th[t].req.conn].process
    /\ stdout[th[t].req.conn] # <<>>
    /\ stdout'[th[t].req.conn] = Tail(stdout[th[t].req.conn])

\* C7: when the provider sends roots/list while a tools/call is pending and
\* its response afterwards, the read of the roots/list line writes the reply
\* (the inbound id, an empty roots list) before any further line is read,
\* and the read of the response completes the call with the provider's result.
C7_InboundInterleaving ==
    [][\A t \in Threads :
        LET c == th[t].req.conn
            line == Head(stdout[c])
        IN  (Reads(t) /\ th[t].req.method = "tools/call" /\ proc[c] = "running") =>
              /\ (line.kind = "obj" /\ line.method = "roots/list" /\ line.hasId) =>
                    /\ stdin'[c] = Append(stdin[c], Response(line.id, "other", <<>>, "roots"))
                    /\ th'[t].pc = "wait"
                    /\ th'[t].req = th[t].req
              /\ (/\ "roots/list" \in Range(th[t].track.inbound)
                  /\ line.kind = "obj" /\ line.method = "" /\ line.hasId
                  /\ line.id = th[t].req.id /\ line.shape = "content") =>
                    /\ th'[t].pc = "idle"
                    /\ th'[t].ret = Value(TRUE, "content", JoinText(line.items))
      ]_vars

C7_Witness ==
    \E t \in Threads :
        /\ Finished(t, "execute_tool")
        /\ th[t].track.inbound = <<"roots/list">>
        /\ th[t].ret = Value(TRUE, "content", "4")

\* C8: every inbound request read while a request is pending (and the
\* provider's input pipe is open) gets exactly one reply line echoing its
\* id, an empty roots list for roots/list and error -32601 for any other
\* method; the client then waits on for its own response, the pending
\* call not failed.
C8_InboundAnswered ==
    [][\A t \in Threads :
        LET c == th[t].req.conn
            line == Head(stdout[c])
        IN  (Reads(t) /\ proc[c] = "running"
                /\ line.kind = "obj" /\ line.method # "" /\ line.hasId) =>
              /\ \E reply \in [kind : {"obj"}, method : {""}, hasId : {TRUE}, id : {line.id},
                               shape : {"other", "error"}, items : {<<>>},
                               text : {"roots", "Method not found"},
                               code : {0, MethodNotFound}] :
                    /\ stdin'[c] = Append(stdin[c], reply)
                    /\ line.method = "roots/list"
                          => reply.shape = "other" /\ reply.text = "roots"
                    /\ line.method # "roots/list"
                          => reply.shape = "error" /\ reply.code = -32601
              /\ th'[t].pc = "wait"
              /\ th'[t].req = th[t].req
              /\ th'[t].ret = th[t].ret
      ]_vars

\* an unknown method was answered with the error and the caller waits on
C8_Witness ==
    \E t \in Threads :
        /\ th[t].pc = "wait"
        /\ "sampling/createMessage" \in Range(th[t].track.inbound)
        /\ \E i \in DOMAIN stdin[th[t].req.conn] :
              /\ stdin[th[t].req.conn][i].shape = "error"
              /\ stdin[th[t].req.conn][i].code = -32601
              /\ stdin[th[t].req.conn][i].id = -1

\* C9: what _send_request hands its caller is a line whose id is the id of
\* the caller's request; lines with another id, such as the late response
\* to an earlier request that failed, are skipped.
C9_MatchedById ==
    \A t \in Threads :
        th[t].track.handed # NoResponse =>
            /\ th[t].track.handed.hasId
            /\ th[t].track.handed.id = th[t].track.asked

\* the call skipped the response to an earlier request and got its own
C9_Witness ==
    \E t \in Threads :
        /\ Finished(t, "execute_tool")
        /\ th[t].ret.ok
        /\ \E i \in DOMAIN th[t].track.skipped :
              th[t].track.skipped[i] \in 1..(th[t].track.asked - 1)


\* ------------------------------------------------------------------------
\* Two threads drive the synchronous wrapper of one registry: the lazy
\* initialization of get_available_tools, then tool calls.
NextThreads ==
    \/ \E t \in Threads : CallGetAvailableTools(t)
    \/ \E t \in Threads : CallExecuteTool(t, "add")
    \/ \E t \in Threads : GetLoopCreate(t)
    \/ \E t \in Threads : RunUntilComplete(t)
    \/ \E t \in Threads : InitializeBegin(t)
    \/ \E t \in Threads : ConnectStart(t)
    \/ \E t \in Threads : InitializeAggregate(t)
    \/ \E t \in Threads : ExecuteTool(t)
    \/ \E t \in Threads : ReadLine(t)
    \/ \E c \in DOMAIN conns : ProviderServe(c)
    \/ \E c \in DOMAIN conns : ProviderExit(c)

InitThreads == InitWith(WireConfigs, 2, ThreadOps, 0)
SpecThreads == InitThreads /\ [][NextThreads]_vars

\* C10: at most one request is in flight per connection: no two callers
\* are inside _send_request's read loop on the same connection.
C10_OneInFlight ==
    \A t1, t2 \in Threads :
        (t1 # t2 /\ th[t1].pc = "wait" /\ th[t2].pc = "wait")
        => th[t1].req.conn # th[t2].req.conn


\* ------------------------------------------------------------------------
\* Properties of the connection handshake, under Spec.

\* thread t, inside gather, attempts the connection at the head of its list
\* and Popen raises
SpawnFails(t) ==
    /\ th[t].pc = "connect"
    /\ th[t].todo # <<>>
    /\ th'[t] # th[t]
    /\ proc'[Head(th[t].todo)] = "unspawned"

\* thread t, waiting for the response to its initialize request, reads it
\* and it holds an error field
ReadsInitializeError(t) ==
    /\ Reads(t)
    /\ th[t].req.method = "initialize"
    /\ Classify(Head(stdout[th[t].req.conn]), th[t].req.id) = "match"
    /\ HasError(Head(stdout[th[t].req.conn]))

\* thread t, waiting for the response to its initialize request, reads the
\* end of the stream
ReadsInitializeEof(t) ==
    /\ th[t].pc = "wait"
    /\ th[t].req.method = "initialize"
    /\ stdout[th[t].req.conn] = <<>>
    /\ th'[t] # th[t]

\* C11: connect() returns false to initialize's gather, leaves the
\* connection's initialized flag false and raises nothing when the subprocess
\* cannot be spawned, when the initialize response holds an error field, and
\* when the stream ends before an initialize response is read.
C11_ConnectFails ==
    [][\A t \in Threads :
        LET c == IF th[t].pc = "connect" THEN Head(th[t].todo) ELSE th[t].req.conn
        IN  (SpawnFails(t) \/ ReadsInitializeError(t) \/ ReadsInitializeEof(t)) =>
              /\ th'[t].results = Append(th[t].results, FALSE)
              /\ ~conns'[c].initialized
              /\ th'[t].pc = "connect"
              /\ th'[t].todo = Tail(th[t].todo)
              /\ th'[t].ret.kind = "none"
      ]_vars

\* the provider exited over the initialize request: the attempt failed, the
\* connection is not initialized and initialize() returned a value
C11_Witness ==
    \E t \in Threads, c \in DOMAIN conns :
        /\ Finished(t, "initialize")
        /\ th[t].ret.kind = "value"
        /\ th[t].results = <<FALSE>>
        /\ proc[c] = "exited"
        /\ conns[c].process
        /\ ~conns[c].initialized


\* ------------------------------------------------------------------------
\* The interface of one connection: a caller initializes the registry,
\* then calls call_tool, read_resource and disconnect on the connection
\* object, and read_resource on the registry; the provider answers calls
\* and reads in every shape of a well-formed response.
NextConn ==
    \/ \E t \in Threads : ~client_initialized /\ CallInitialize(t)
    \/ \E t \in Threads : GetLoopCreate(t)
    \/ \E t \in Threads : RunUntilComplete(t)
    \/ \E t \in Threads : InitializeBegin(t)
    \/ \E t \in Threads : ConnectStart(t)
    \/ \E t \in Threads : InitializeAggregate(t)
    \/ \E t \in Threads, c \in DOMAIN conns, name \in ToolNames :
          CallConnectionCallTool(t, c, name)
    \/ \E t \in Threads, c \in DOMAIN conns, uri \in ResourceUris :
          CallConnectionReadResource(t, c, uri)
    \/ \E t \in Threads, uri \in ResourceUris : CallReadResource(t, uri)
    \/ \E t \in Threads : RegistryReadResource(t)
    \/ \E t \in Threads, c \in DOMAIN conns : CallDisconnect(t, c)
    \/ \E t \in Threads : ReadLine(t)
    \/ \E c \in DOMAIN conns : ProviderServe(c)
    \/ \E c \in DOMAIN conns : ProviderServeShaped(c)
    \/ \E c \in DOMAIN conns : ProviderExit(c)

InitConn == InitWith(WireConfigs, 1, ConnOps, 0)
SpecConn == InitConn /\ [][NextConn]_vars

\* C12: call_tool on a connection that is not initialized, or for a name
\* that is not in the connection's own tool map, returns (false, ...) at
\* once and writes nothing to the subprocess.
C12_CallToolGuard ==
    \A t \in Threads :
        (th[t].op = "call_tool" /\ (~th[t].track.ownerInit \/ ~th[t].track.inCatalog))
        => /\ th[t].pc = "idle"
           /\ th[t].ret.kind = "value"
           /\ ~th[t].ret.ok
           /\ written = th[t].track.lines0
           /\ th[t].track.sentTo = None

\* the handshake failed and the subprocess still runs: call_tool on the
\* uninitialized connection returns the failure
C12_Witness ==
    \E t \in Threads :
        /\ th[t].op = "call_tool"
        /\ ~th[t].track.ownerInit
        /\ Writable(th[t].target)
        /\ th[t].ret = Value(FALSE, "Tool not available on server", "math_tool")


\* the success text of each content list a provider answers with
ExpectedText(items) ==
    CASE items = <<>> -> ""
      [] items = <<Item("text", "4")>> -> "4"
      [] items = <<Item("text", "hello")>> -> "hello"
      [] items = <<Item("text", "4"), Item("image", "png"), Item("text", "5")>> -> "4\n5"

C14_ReadResourceContract ==
    \A t \in Threads :
        LET r == th[t].track.handed
            me == th[t]
        IN  /\ (me.op = "conn_read_resource" /\ (~me.track.ownerInit \/ ~me.track.inCatalog))
               => /\ me.pc = "idle"
                  /\ me.ret.kind = "value" /\ ~me.ret.ok
                  /\ written = me.track.lines0
            /\ (Finished(t, "read_resource") /\ ~me.track.inCatalog)
               => /\ me.ret = Value(FALSE, "Resource not found", me.arg)
                  /\ written = me.track.lines0
            /\ (Finished(t, "read_resource") /\ me.track.inCatalog /\ ~me.track.ownerInit)
               => /\ me.ret = Value(FALSE, "Server not connected", me.track.server_name)
                  /\ written = me.track.lines0
            /\ (me.op \in {"conn_read_resource", "read_resource"}
                   /\ me.pc = "idle" /\ me.ret.kind = "value" /\ r # NoResponse)
               => /\ r.shape = "error" => me.ret = Value(FALSE, "Server error", r.text)
                  /\ r.shape = "error_nomsg" => ~me.ret.ok
                  /\ r.shape = "contents" =>
                        me.ret = Value(TRUE, "content", ExpectedText(r.items))
                  /\ r.shape = "other" =>
                        me.ret = Value(TRUE, "json", "{\n  \"" \o r.text \o "\": []\n}")
                  /\ r.shape = "content" =>
                        me.ret = Value(TRUE, "json", Dumps("content", r.items))
                  /\ r.shape = "none" => me.ret = Value(FALSE, "No result in response", "")

\* the registry's read_resource got a contents list of three items
C14_Witness ==
    \E t \in Threads :
        /\ Finished(t, "read_resource")
        /\ th[t].track.handed.shape = "contents"
        /\ Len(th[t].track.handed.items) = 3
        /\ th[t].ret = Value(TRUE, "content", "4\n5")


\* thread t calls disconnect() on a connection and returns
Disconnects(t) ==
    /\ th[t].pc = "idle"
    /\ th'[t] # th[t]
    /\ th'[t].op = "disconnect"

\* C15: disconnect() from any state of the connection (never spawned,
\* failed, initialized, already disconnected) leaves it without a process
\* handle and not initialized, the subprocess it held terminated or, past
\* the grace period, killed; on a connection already disconnected it
\* changes nothing; it raises nothing.
C15_DisconnectIdempotent ==
    [][\A t \in Threads :
        LET c == th'[t].target
        IN  Disconnects(t) =>
              /\ ~conns'[c].process
              /\ ~conns'[c].initialized
              /\ th'[t].ret.kind = "value"
              /\ conns[c].process => proc'[c] \in {"terminated", "killed"}
              /\ ~conns[c].process => proc' = proc
              /\ (~conns[c].process /\ ~conns[c].initialized) => conns' = conns
              /\ \A d \in DOMAIN conns \ {c} : conns'[d] = conns[d] /\ proc'[d] = proc[d]
      ]_vars

\* a second disconnect() of a connection whose subprocess had to be killed
C15_Witness ==
    \E t \in Threads :
        /\ th[t].op = "disconnect"
        /\ ~th[t].track.discLive
        /\ ~th[t].track.ownerInit
        /\ proc[th[t].target] = "killed"
        /\ ~conns[th[t].target].process


\* ------------------------------------------------------------------------
\* Properties of cleanup, under Spec.

\* thread t calls cleanup() and it returns
CleansUp(t) ==
    /\ th[t].pc = "idle"
    /\ th'[t] # th[t]
    /\ th'[t].op = "cleanup"
    /\ th'[t].ret.kind = "value"

\* C16: cleanup() disconnects every connection of the connection map,
\* initialized or failed, and leaves the connection map, the tool catalog
\* and the resource catalog empty and the registry's flag false.
C16_CleanupClears ==
    [][\A t \in Threads :
        CleansUp(t) =>
          /\ \A c \in Registered :
                /\ ~conns'[c].process
                /\ ~conns'[c].initialized
                /\ conns[c].process => proc'[c] \in {"terminated", "killed"}
          /\ server_connections' = <<>>
          /\ DOMAIN available_tools' = {}
          /\ DOMAIN available_resources' = {}
          /\ ~client_initialized'
      ]_vars

\* a map that held a connection that never spawned and one whose
\* subprocess ran was cleaned up
C16_Witness ==
    \E t \in Threads, c, d \in DOMAIN conns :
        /\ th[t].op = "cleanup"
        /\ th[t].ret.kind = "value"
        /\ proc[c] = "unspawned"
        /\ proc[d] \in {"terminated", "killed"}
        /\ server_connections = <<>>
        /\ ~client_initialized


\* ------------------------------------------------------------------------
\* One caller uses the getters of a registry, next to explicit initialize,
\* cleanup and tool calls through the synchronous wrapper, and may change
\* the mappings the getters hand out.
LazyConfigs == {<<[key |-> "math_tool", name |-> "math_tool", enabled |-> e]>> :
                  e \in BOOLEAN}

NextLazy ==
    \/ \E t \in Threads : ~client_initialized /\ CallInitialize(t)
    \/ \E t \in Threads : CallGetAvailableTools(t)
    \/ \E t \in Threads : CallGetAvailableResources(t)
    \/ \E t \in Threads : CallGetToolsDescription(t)
    \/ \E t \in Threads, kind \in {"add", "remove", "replace"},
          k \in ToolNames \cup ResourceUris : MutateReturned(t, kind, k)
    \/ \E t \in Threads : CallExecuteTool(t, "add")
    \/ \E t \in Threads : CallCleanup(t)
    \/ \E t \in Threads : GetLoopCreate(t)
    \/ \E t \in Threads : RunUntilComplete(t)
    \/ \E t \in Threads : InitializeBegin(t)
    \/ \E t \in Threads : ConnectStart(t)
    \/ \E t \in Threads : InitializeAggregate(t)
    \/ \E t \in Threads : ExecuteTool(t)
    \/ \E t \in Threads : ReadLine(t)
    \/ \E c \in DOMAIN conns : ProviderServe(c)
    \/ \E c \in DOMAIN conns : ProviderExit(c)

InitLazy == InitWith(LazyConfigs, 1, GetterOps, 0)
SpecLazy == InitLazy /\ [][NextLazy]_vars

\* thread t calls one of the three getters
CallsGetter(t) ==
    /\ th[t].pc = "idle"
    /\ th'[t].opsLeft = th[t].opsLeft - 1
    /\ th'[t].op \in Getters

\* the coroutine initialize() of thread t reaches its end
InitializeEnds(t) ==
    /\ th[t].pc = "connect"
    /\ th'[t].pc = "idle"

\* C17: a getter call runs initialize() exactly when the registry's flag is
\* false; initialize() sets the flag whatever its connections did, and only
\* cleanup() resets it.  So the getters initialize a fresh registry once,
\* never an initialized one, and again on the first call after a cleanup().
C17_LazyOncePerReset ==
    [][/\ \A t \in Threads :
            CallsGetter(t) => (th'[t].pc = "coro" <=> ~client_initialized)
       /\ \A t \in Threads : InitializeEnds(t) => client_initialized'
       /\ (client_initialized /\ ~client_initialized') =>
              \E t \in Threads : CleansUp(t)
      ]_vars

\* the first getter call initialized the registry, whose server failed or
\* not, and a later getter call returned without initializing
C17_Witness ==
    \E t \in Threads :
        /\ th[t].pc = "idle"
        /\ th[t].op \in Getters
        /\ th[t].ret.kind = "value"
        /\ th[t].results = <<>>
        /\ Len(conns) = 1
        /\ loops = <<>>
        /\ client_initialized

\* C17 as stated: once initialize() has run, no getter call runs it again
C17_NeverAgain ==
    [][\A t \in Threads :
         (CallsGetter(t) /\ conns # <<>>) => th'[t].pc # "coro"]_vars


\* ------------------------------------------------------------------------
\* Properties of the mappings the getters return, under SpecLazy.

\* the caller t changes the mapping a getter handed to it
Mutates(t) ==
    /\ th[t].pc = "idle"
    /\ th'[t].pc = "idle"
    /\ th'[t].op = th[t].op
    /\ th[t].held.ref \in {"copy", "catalog"}
    /\ th'[t].held.ref = th[t].held.ref
    /\ th'[t].held.value # th[t].held.value

\* C18: adding, removing or replacing a key of the mapping returned by
\* get_available_tools / get_available_resources changes neither catalog of
\* the registry, nor what execute_tool would route a name to, nor what a
\* later getter call would return.
C18_DefensiveCopy ==
    [][\A t \in Threads :
         Mutates(t) =>
           /\ available_tools' = available_tools
           /\ available_resources' = available_resources
           /\ \A name \in ToolNames : Route(name)' = Route(name)
           /\ \A getter \in Getters :
                 Returned(getter, available_tools, available_resources)' =
                 Returned(getter, available_tools, available_resources)
      ]_vars

\* the caller removed the tool "add" from the mapping it got, and the
\* registry's catalog still has it
C18_Witness ==
    \E t \in Threads :
        /\ th[t].pc = "idle"
        /\ th[t].op = "get_available_tools"
        /\ th[t].held.ref = "copy"
        /\ "add" \notin DOMAIN th[t].held.value
        /\ "add" \in DOMAIN available_tools


\* ------------------------------------------------------------------------
\* Properties of the lines a connection writes, under SpecConn.

\* the lines a step appends to the input pipe of connection c
NewLines(c) ==
    IF /\ Len(stdin'[c]) > Len(stdin[c])
       /\ SubSeq(stdin'[c], 1, Len(stdin[c])) = stdin[c]
    THEN SubSeq(stdin'[c], Len(stdin[c]) + 1, Len(stdin'[c]))
    ELSE <<>>

IsNotification(line) == line.kind = "obj" /\ line.method # "" /\ ~IsRequest(line)

\* C19: every request a connection writes (initialize, tools/list,
\* resources/list, tools/call, resources/read) carries an id generated for
\* it, which no earlier request carried and no later request will carry; a
\* notification (notifications/initialized) carries no id, and what a
\* caller waits for is always the id of the request it has just written.
C19_FreshIds ==
    [][/\ nextId' >= nextId
       /\ \A c \in DOMAIN stdin :
            LET new == NewLines(c)
            IN  \A i \in DOMAIN new :
                  /\ IsRequest(new[i]) =>
                        /\ new[i].method \in {"initialize", "tools/list", "resources/list",
                                              "tools/call", "resources/read"}
                        /\ new[i].id \in nextId..(nextId' - 1)
                        /\ \A j \in DOMAIN new :
                              (j # i /\ IsRequest(new[j])) => new[j].id # new[i].id
                  /\ IsNotification(new[i]) =>
                        /\ new[i].method = "notifications/initialized"
                        /\ new[i].id = None
                        /\ \A t \in Threads : th'[t].req.method # new[i].method
       /\ \A t \in Threads :
            (th'[t].pc = "wait" /\ th'[t].req # th[t].req) =>
               \E i \in DOMAIN NewLines(th'[t].req.conn) :
                  LET line == NewLines(th'[t].req.conn)[i]
                  IN  /\ IsRequest(line)
                      /\ line.id = th'[t].req.id
                      /\ line.method = th'[t].req.method
      ]_vars

\* after the handshake, with its notification and its three requests, a
\* call or a read is on its way with the fifth line and a fourth id or later
C19_Witness ==
    \E c \in DOMAIN stdin :
        \E r \in Sent(c) :
            /\ r.method \in {"tools/call", "resources/read"}
            /\ r.id >= 4
            /\ written >= 5


\* ------------------------------------------------------------------------
\* The tool-selection bridges: ChatHandler.process_input over the
\* synchronous wrapper and run_agent over the registry itself.  The oracle
\* (the language model asked to choose a tool) raises or replies with a
\* text: some prose, an opening code fence, a body, a closing fence.  The
\* three backquotes of a fence are written <fence>.

\* JSON values as the bridges look at them: an object and its two keys, or a
\* value of another type with its truth value; Missing is an absent key
Missing == "<missing>"
JNull == "<null>"
JObject(tool_name, parameters) ==
    [type |-> "object", truthy |-> TRUE, tool_name |-> tool_name, parameters |-> parameters]
JOther(type, truthy) ==
    [type |-> type, truthy |-> truthy, tool_name |-> Missing, parameters |-> Missing]
\* json.loads raised
JFail == JOther("fail", FALSE)
\* _get_ai_tool_decision returned None
JNone == JOther("none", FALSE)

\* the bodies of the oracle's replies
Bodies ==
    {"{\"tool_name\": null, \"parameters\": null}",
     "{\"tool_name\": null, \"parameters\": {\"a\": 2}}",
     "{\"tool_name\": \"add\", \"parameters\": {\"a\": 2}}",
     "{\"tool_name\": \"add\", \"parameters\": {}}",
     "{\"tool_name\": \"null\", \"parameters\": {\"a\": 2}}",
     "{\"parameters\": {\"a\": 2}}",
     "[\"add\"]",
     "null",
     "{tool_name: add}",
     "I cannot help with that.",
     ""}

\* json.loads of a body
Loads(body) ==
    CASE body = "{\"tool_name\": null, \"parameters\": null}" -> JObject(JNull, JNull)
      [] body = "{\"tool_name\": null, \"parameters\": {\"a\": 2}}" -> JObject(JNull, "{a}")
      [] body = "{\"tool_name\": \"add\", \"parameters\": {\"a\": 2}}" -> JObject("add", "{a}")
      [] body = "{\"tool_name\": \"add\", \"parameters\": {}}" -> JObject("add", "{}")
      [] body = "{\"tool_name\": \"null\", \"parameters\": {\"a\": 2}}" -> JObject("null", "{a}")
      [] body = "{\"parameters\": {\"a\": 2}}" -> JObject(Missing, "{a}")
      [] body = "[\"add\"]" -> JOther("array", TRUE)
      [] body = "null" -> JOther("null", FALSE)
      [] OTHER -> JFail

Raises == [kind |-> "raises", prose |-> "", fence |-> "", body |-> "", closed |-> FALSE]

Outcomes ==
    {Raises}
    \cup {[kind |-> "text", prose |-> "", fence |-> "", body |-> b, closed |-> FALSE] :
             b \in Bodies}
    \cup {[kind |-> "text", prose |-> p, fence |-> f, body |-> b, closed |-> c] :
             p \in {"", "Here is my choice: "}, f \in {"<fence>json", "<fence>"},
             b \in Bodies, c \in BOOLEAN}

\* the text of a reply
Text(outcome) ==
    outcome.prose \o outcome.fence \o outcome.body \o
    (IF outcome.closed THEN "<fence>" ELSE "")

\* json.loads of a reply as it is: a text with prose or a fence is not JSON
LoadsText(outcome) ==
    IF outcome.prose = "" /\ outcome.fence = "" THEN Loads(outcome.body) ELSE JFail

\* run_agent's _get_ai_tool_decision takes the text between an opening fence
\* and the next fence, when there is one behind a body that is not empty
Extracted(outcome) ==
    IF outcome.fence # "" /\ outcome.closed /\ outcome.body # ""
    THEN Loads(outcome.body)
    ELSE LoadsText(outcome)

\* _get_ai_tool_decision: the parsed reply; on any exception None
\* (ChatHandler) or the decision {"tool_name": None, "parameters": {}}
\* (run_agent)
GetAiToolDecision(bridge, outcome) ==
    LET value == IF outcome.kind = "raises" THEN JFail
                 ELSE IF bridge = "run_agent" THEN Extracted(outcome)
                 ELSE LoadsText(outcome)
    IN  IF value # JFail THEN value
        ELSE IF bridge = "run_agent" THEN JObject(JNull, "{}")
        ELSE JNone

\* a bridge that asks for parameters only
SelectsByParameters(bridge, decision) ==
    IF ~decision.truthy THEN "fallback"
    ELSE IF decision.type # "object" THEN "error"
    ELSE IF decision.parameters = "{a}" THEN "tool"
    ELSE "fallback"

\* the test on the decision: "tool" calls execute_tool, "fallback" leaves
\* the answer to the language model, "error" is the AttributeError of .get
\* on a value that is no dict
Selects(bridge, decision) ==
    IF ~decision.truthy THEN "fallback"
    ELSE IF decision.type # "object" THEN "error"
    ELSE IF decision.tool_name \in {Missing, JNull, ""} THEN "fallback"
    ELSE IF bridge = "run_agent"
    THEN IF decision.tool_name # "null" /\ decision.parameters # Missing
         THEN "tool" ELSE "fallback"
    ELSE IF decision.parameters = "{a}" THEN "tool" ELSE "fallback"

\* a bridge takes a request: ChatHandler asks the oracle only when the
\* registry is initialized and has tools; the chosen tool is executed through
\* the wrapper (ChatHandler) or awaited on the registry (run_agent)
CallBridge(t, bridge, outcome) ==
    LET consulted == bridge = "run_agent"
                     \/ (client_initialized /\ available_tools # EmptyMap)
        decision == GetAiToolDecision(bridge, outcome)
        selects == IF consulted THEN Selects(bridge, decision) ELSE "fallback"
        chat == [bridge |-> bridge, consulted |-> consulted,
                 outcome |-> IF consulted THEN Text(outcome) ELSE "",
                 selects |-> selects]
        idle == [IdleThread(th[t].opsLeft - 1) EXCEPT !.op = bridge, !.chat = chat]
    IN  /\ th[t].pc = "idle"
        /\ th[t].opsLeft > 0
        /\ consulted \/ outcome = Raises
        /\ th' = [th EXCEPT ![t] =
                    CASE selects = "fallback" ->
                            [idle EXCEPT !.ret = Value(TRUE, "fallback", "")]
                      [] selects = "error" ->
                            [idle EXCEPT !.ret = Value(FALSE, "error", "AttributeError")]
                      [] OTHER ->
                            IF bridge = "run_agent"
                            THEN [idle EXCEPT !.op = "execute_tool", !.pc = "coro",
                                              !.arg = decision.tool_name,
                                              !.track.lines0 = written]
                            ELSE [Entered(t, "execute_tool", decision.tool_name)
                                     EXCEPT !.chat = chat]]
        /\ UNCHANGED <<servers, conns, proc, stdin, stdout,
                       server_connections, available_tools, available_resources,
                       client_initialized, wrapper_loop, loops, nextId, written, chaos>>

\* ChatHandler.process_input
ProcessInput(t, outcome) == CallBridge(t, "chat_handler", outcome)

\* run_agent, after an initialize_client_and_agent whose initialize()
\* returned True
RunAgent(t, outcome) ==
    /\ client_initialized
    /\ \E i \in DOMAIN server_connections : conns[server_connections[i].conn].initialized
    /\ CallBridge(t, "run_agent", outcome)

NextChat ==
    \/ \E t \in Threads : ~client_initialized /\ CallInitialize(t)
    \/ \E t \in Threads, outcome \in Outcomes : ProcessInput(t, outcome)
    \/ \E t \in Threads, outcome \in Outcomes : RunAgent(t, outcome)
    \/ \E t \in Threads : GetLoopCreate(t)
    \/ \E t \in Threads : RunUntilComplete(t)
    \/ \E t \in Threads : InitializeBegin(t)
    \/ \E t \in Threads : ConnectStart(t)
    \/ \E t \in Threads : InitializeAggregate(t)
    \/ \E t \in Threads : ExecuteTool(t)
    \/ \E t \in Threads : ReadLine(t)
    \/ \E c \in DOMAIN conns : ProviderServe(c)
    \/ \E c \in DOMAIN conns : ProviderExit(c)

InitChat == InitWith(WireConfigs, 1, ChatOps, 0)
SpecChat == InitChat /\ [][NextChat]_vars

\* thread t hands a request to a bridge, which asks the oracle
AsksOracle(t) ==
    /\ th[t].pc = "idle"
    /\ th'[t].opsLeft = th[t].opsLeft - 1
    /\ th'[t].chat.bridge # ""
    /\ th'[t].chat.consulted

\* the replies of the claim: the oracle raised, or the text the bridge hands
\* to json.loads is not JSON, or it is an object whose tool_name is null
NoToolReplies(bridge) ==
    {Text(o) : o \in {o \in Outcomes :
        \/ o.kind = "raises"
        \/ (IF bridge = "run_agent" THEN Extracted(o) ELSE LoadsText(o)) = JFail
        \/ (IF bridge = "run_agent" THEN Extracted(o) ELSE LoadsText(o)).tool_name = JNull}}

\* C20: when the oracle raises, or its reply cannot be parsed as JSON by the
\* bridge, or the reply is an object whose tool_name is null, the bridge does
\* not call execute_tool, writes nothing to a server, and returns the answer
\* of the fallback path and no error.
C20_OracleFallback ==
    [][\A t \in Threads :
         (AsksOracle(t) /\ th'[t].chat.outcome \in NoToolReplies(th'[t].chat.bridge)) =>
            /\ th'[t].op # "execute_tool"
            /\ th'[t].pc = "idle"
            /\ th'[t].ret = Value(TRUE, "fallback", "")
            /\ written' = written
      ]_vars

\* a bridge that had tools to offer got prose around an unclosed fence from
\* the oracle and answered by the fallback path
C20_Witness ==
    \E t \in Threads :
        /\ th[t].chat.consulted
        /\ th[t].chat.outcome = "Here is my choice: <fence>json{tool_name: add}"
        /\ "add" \in DOMAIN available_tools
        /\ th[t].pc = "idle"
        /\ th[t].ret = Value(TRUE, "fallback", "")


\* the value a bridge obtains from a reply of the oracle
Parsed(bridge, outcome) ==
    IF outcome.kind = "raises" THEN JFail
    ELSE IF bridge = "run_agent" THEN Extracted(outcome)
    ELSE LoadsText(outcome)

\* the replies in which the bridge reads the tool_name "null", a string
SentinelReplies(bridge) ==
    {Text(o) : o \in {o \in Outcomes : Parsed(bridge, o).tool_name = "null"}}

\* C21: a reply whose tool_name is the string "null" makes no bridge call
\* execute_tool; run_agent and ChatHandler alike leave the answer to the
\* fallback path.
C21_NullSentinel ==
    [][\A t \in Threads :
         (AsksOracle(t) /\ th'[t].chat.outcome \in SentinelReplies(th'[t].chat.bridge)) =>
            /\ th'[t].op # "execute_tool"
            /\ th'[t].ret = Value(TRUE, "fallback", "")
      ]_vars

\* the same for run_agent alone
C21_RunAgentSentinel ==
    [][\A t \in Threads :
         (/\ AsksOracle(t)
          /\ th'[t].chat.bridge = "run_agent"
          /\ th'[t].chat.outcome \in SentinelReplies("run_agent")) =>
            /\ th'[t].op # "execute_tool"
            /\ th'[t].ret = Value(TRUE, "fallback", "")
      ]_vars

\* ChatHandler executed a tool named "null" and the registry did not find it
C21_Witness ==
    \E t \in Threads :
        /\ th[t].chat.bridge = "chat_handler"
        /\ th[t].chat.outcome \in SentinelReplies("chat_handler")
        /\ Finished(t, "execute_tool")
        /\ th[t].arg = "null"
        /\ th[t].ret = Value(FALSE, "Tool not found", "null")


\* ------------------------------------------------------------------------
\* The configuration manager (src/src/config/mcp_config.py): the server
\* definitions it holds, their dictionary and JSON forms.  Here an entry of
\* `servers` is [key |-> the mapping key, config |-> an MCPServerConfig].

\* Python values
PyNone == [py |-> "None"]
PyStr(s) == [py |-> "str", s |-> s]
PyBool(b) == [py |-> "bool", b |-> b]
PyList(items) == [py |-> "list", items |-> items]
PyDict(d) == [py |-> "dict", d |-> d]
\* a member of the enumeration MCPTransportType
PyEnum(member) == [py |-> "MCPTransportType", member |-> member]

\* JSON values of a document
JsonNull == [json |-> "null"]
JsonString(s) == [json |-> "string", s |-> s]
JsonBool(b) == [json |-> "bool", b |-> b]
JsonArray(items) == [json |-> "array", items |-> items]
JsonObject(members) == [json |-> "object", members |-> members]
\* json.dumps raised TypeError on a value it cannot serialize
NotSerializable == [json |-> "TypeError"]

\* MCPTransportType: members and their values
TransportMembers == {"STDIO", "SSE", "HTTP"}
TransportValue(member) ==
    CASE member = "STDIO" -> "stdio"
      [] member = "SSE" -> "sse"
      [] member = "HTTP" -> "http"

\* json.dumps of one value
RECURSIVE JsonDumps(_)
JsonDumps(v) ==
    CASE v.py = "None" -> JsonNull
      [] v.py = "str" -> JsonString(v.s)
      [] v.py = "bool" -> JsonBool(v.b)
      [] v.py = "list" -> JsonArray([i \in DOMAIN v.items |-> JsonDumps(v.items[i])])
      [] v.py = "dict" -> JsonObject([k \in DOMAIN v.d |-> JsonDumps(v.d[k])])
      [] OTHER -> NotSerializable

\* json.loads of one value
RECURSIVE JsonLoads(_)
JsonLoads(j) ==
    CASE j.json = "null" -> PyNone
      [] j.json = "string" -> PyStr(j.s)
      [] j.json = "bool" -> PyBool(j.b)
      [] j.json = "array" -> PyList([i \in DOMAIN j.items |-> JsonLoads(j.items[i])])
      [] j.json = "object" -> PyDict([k \in DOMAIN j.members |-> JsonLoads(j.members[k])])

\* the fields of the dataclass and the two it requires
ConfigFields == {"name", "command", "args", "env", "transport", "url",
                 "enabled", "description"}
RequiredFields == {"name", "command"}

\* the defaults of the dataclass, __post_init__ applied
FieldDefault(field) ==
    CASE field = "args" -> PyList(<<>>)
      [] field = "env" -> PyDict(EmptyMap)
      [] field = "transport" -> PyEnum("STDIO")
      [] field = "enabled" -> PyBool(TRUE)
      [] OTHER -> PyNone

\* a from_dict that leaves the transport as the string it finds
FromDictKeepString(data) ==
    IF ~(DOMAIN data \subseteq ConfigFields) \/ ~(RequiredFields \subseteq DOMAIN data)
    THEN [error |-> "TypeError"]
    ELSE [f \in ConfigFields |->
            IF f \notin DOMAIN data THEN FieldDefault(f)
            ELSE IF f \in {"args", "env"} /\ data[f] = PyNone THEN FieldDefault(f)
            ELSE data[f]]

\* MCPServerConfig.to_dict: asdict, the transport replaced by its value
ToDict(config) ==
    [config EXCEPT !.transport = PyStr(TransportValue(config.transport.member))]

\* MCPServerConfig.from_dict: the transport looked up by value (ValueError
\* when no member has it), then cls(**data) with its defaults (TypeError on
\* a missing required or an unknown field) and __post_init__
FromDict(data) ==
    LET known == "transport" \in DOMAIN data =>
                    /\ data.transport.py = "str"
                    /\ \E m \in TransportMembers : TransportValue(m) = data.transport.s
    IN  IF ~known THEN [error |-> "ValueError"]
        ELSE IF ~(DOMAIN data \subseteq ConfigFields) \/ ~(RequiredFields \subseteq DOMAIN data)
        THEN [error |-> "TypeError"]
        ELSE [f \in ConfigFields |->
                IF f \notin DOMAIN data THEN FieldDefault(f)
                ELSE IF f = "transport"
                THEN PyEnum(CHOOSE m \in TransportMembers :
                                TransportValue(m) = data.transport.s)
                ELSE IF f \in {"args", "env"} /\ data[f] = PyNone THEN FieldDefault(f)
                ELSE data[f]]

\* a document that json.loads rejects
BadDocument == [kind |-> "bad", servers |-> <<>>]

\* export_config: the document {"servers": {key: to_dict, ...}}
ExportConfig(held) ==
    [kind |-> "json",
     servers |-> [i \in DOMAIN held |->
                    [key |-> held[i].key,
                     value |-> JsonDumps(PyDict(ToDict(held[i].config)))]]]

\* an import that stores the entries one by one and stops at the first it
\* cannot convert
ImportConfigStoring(held, document) ==
    LET configs == [i \in DOMAIN document.servers |->
                      IF document.servers[i].value.json = "object"
                      THEN FromDict(JsonLoads(document.servers[i].value).d)
                      ELSE [error |-> "TypeError"]]
        bad == {i \in DOMAIN configs : "error" \in DOMAIN configs[i]}
        good == IF bad = {} THEN Len(configs)
                ELSE (CHOOSE i \in bad : \A j \in bad : i <= j) - 1
        stored == [i \in 1..good |->
                     [key |-> document.servers[i].key, config |-> configs[i]]]
    IN  IF document.kind = "bad" THEN [ok |-> FALSE, servers |-> held]
        ELSE [ok |-> bad = {}, servers |-> stored]

\* import_config: every entry through from_dict; any exception leaves the
\* definitions as they were and returns False
ImportConfig(held, document) ==
    LET configs == [i \in DOMAIN document.servers |->
                      IF document.servers[i].value.json = "object"
                      THEN FromDict(JsonLoads(document.servers[i].value).d)
                      ELSE [error |-> "TypeError"]]
        failed == \/ document.kind = "bad"
                  \/ \E i \in DOMAIN configs : "error" \in DOMAIN configs[i]
    IN  IF failed THEN [ok |-> FALSE, servers |-> held]
        ELSE [ok |-> TRUE,
              servers |-> [i \in DOMAIN configs |->
                             [key |-> document.servers[i].key, config |-> configs[i]]]]

\* the definitions the forms of the user interface and the defaults build
ServerDefinitions ==
    {[name |-> PyStr(n), command |-> PyStr("npx"),
      args |-> PyList(IF n = "weather" THEN <<>> ELSE <<PyStr("-y"), PyStr("server")>>),
      env |-> PyDict(IF n = "weather" THEN EmptyMap ELSE [k \in {"API_KEY"} |-> PyStr("secret")]),
      transport |-> PyEnum(m), url |-> u, enabled |-> PyBool(e), description |-> d] :
        n \in {"weather", "My Math Tool"}, m \in TransportMembers,
        u \in {PyNone, PyStr("http://localhost:8000")}, e \in BOOLEAN,
        d \in {PyNone, PyStr("")}}

\* documents a user may paste: exports of one definition under a key of the
\* user's choice, with fields left out, with an unknown transport, and text
\* that is no JSON
Documents ==
    {BadDocument}
    \cup {[kind |-> "json", servers |-> <<>>]}
    \cup {[kind |-> "json",
           servers |-> <<[key |-> "math_tool",
                          value |-> JsonObject([f \in fields |->
                                        JsonDumps(PyDict(ToDict(c))).members[f]])]>>] :
            c \in {c \in ServerDefinitions : c.transport.member = "SSE" /\ c.enabled.b},
            fields \in {ConfigFields, RequiredFields, RequiredFields \cup {"url"},
                        ConfigFields \ {"command"}}}
    \cup {[kind |-> "json",
           servers |-> <<[key |-> "math_tool",
                          value |-> JsonObject([f \in RequiredFields \cup {"transport"} |->
                                                   JsonString("tcp")])]>>]}

\* add_server: the entry of the definition's name is replaced or appended
AddServer(t, config) ==
    LET key == config.name.s
        at == {i \in DOMAIN servers : servers[i].key = key}
        entry == [key |-> key, config |-> config]
    IN  /\ th[t].pc = "idle"
        /\ th[t].opsLeft > 0
        /\ servers' = IF at = {} THEN Append(servers, entry)
                      ELSE [i \in DOMAIN servers |->
                               IF i \in at THEN entry ELSE servers[i]]
        /\ th' = [th EXCEPT ![t] = [IdleThread(th[t].opsLeft - 1) EXCEPT
                                       !.op = "add_server",
                                       !.ret = Value(TRUE, "add_server", key)]]
        /\ UNCHANGED <<conns, proc, stdin, stdout, server_connections,
                       available_tools, available_resources, client_initialized,
                       wrapper_loop, loops, nextId, written, chaos>>

\* remove_server
RemoveServer(t, key) ==
    /\ th[t].pc = "idle"
    /\ th[t].opsLeft > 0
    /\ servers' = SelectSeq(servers, LAMBDA e : e.key # key)
    /\ th' = [th EXCEPT ![t] = [IdleThread(th[t].opsLeft - 1) EXCEPT
                 !.op = "remove_server",
                 !.ret = Value(\E i \in DOMAIN servers : servers[i].key = key,
                               "remove_server", key)]]
    /\ UNCHANGED <<conns, proc, stdin, stdout, server_connections,
                   available_tools, available_resources, client_initialized,
                   wrapper_loop, loops, nextId, written, chaos>>

\* import_config of a document from outside
CallImportConfig(t, document) ==
    LET imported == ImportConfig(servers, document)
    IN  /\ th[t].pc = "idle"
        /\ th[t].opsLeft > 0
        /\ servers' = imported.servers
        /\ th' = [th EXCEPT ![t] = [IdleThread(th[t].opsLeft - 1) EXCEPT
                     !.op = "import_config",
                     !.ret = Value(imported.ok, "import_config", "")]]
        /\ UNCHANGED <<conns, proc, stdin, stdout, server_connections,
                       available_tools, available_resources, client_initialized,
                       wrapper_loop, loops, nextId, written, chaos>>

\* import_config(export_config()); the thread keeps the definitions the
\* manager held before
ExportThenImport(t) ==
    LET imported == ImportConfig(servers, ExportConfig(servers))
    IN  /\ th[t].pc = "idle"
        /\ th[t].opsLeft > 0
        /\ servers' = imported.servers
        /\ th' = [th EXCEPT ![t] = [IdleThread(th[t].opsLeft - 1) EXCEPT
                     !.op = "import_config", !.arg = "export_config",
                     !.held = [ref |-> "servers", value |-> servers],
                     !.ret = Value(imported.ok, "import_config", "")]]
        /\ UNCHANGED <<conns, proc, stdin, stdout, server_connections,
                       available_tools, available_resources, client_initialized,
                       wrapper_loop, loops, nextId, written, chaos>>

NextConfig ==
    \/ \E t \in Threads, config \in ServerDefinitions : AddServer(t, config)
    \/ \E t \in Threads, key \in {"weather", "My Math Tool", "math_tool"} :
          RemoveServer(t, key)
    \/ \E t \in Threads, document \in Documents : CallImportConfig(t, document)
    \/ \E t \in Threads : ExportThenImport(t)

InitConfig == InitWith({<<>>}, 1, ConfigOps, 0)
SpecConfig == InitConfig /\ [][NextConfig]_vars

\* C22: for every set of definitions a manager holds,
\* import_config(export_config()) returns True and leaves the same entries:
\* same keys in the same order, and in each the same name, command, args,
\* env, transport, url, enabled flag and description.
C22_RoundTrip ==
    \A t \in Threads :
        (Finished(t, "import_config") /\ th[t].arg = "export_config") =>
            /\ th[t].ret.ok
            /\ servers = th[t].held.value

\* a manager holding two definitions, one under a key that is not its name
\* and with a url, a transport that is not the default and no description,
\* went through the round trip
C22_Witness ==
    \E t \in Threads :
        /\ Finished(t, "import_config")
        /\ th[t].arg = "export_config"
        /\ Len(servers) = 2
        /\ \E i \in DOMAIN servers :
              /\ servers[i].key # servers[i].config.name.s
              /\ servers[i].config.transport = PyEnum("SSE")
              /\ servers[i].config.url # PyNone
              /\ servers[i].config.description = PyNone


\* ------------------------------------------------------------------------
\* Properties of the catalogs against the connection map, under Spec.

\* connection c was spawned and its process handle was dropped by disconnect
WasDisconnected(c) == ~conns[c].process /\ proc[c] # "unspawned"

\* the catalog entry resolves to a connection, initialized or disconnected
Resolves(entry) ==
    LET c == ConnectionOf(server_connections, entry.server_name)
    IN  /\ c # None
        /\ conns[c].initialized \/ WasDisconnected(c)

\* C23: in every reachable state each key of the tool catalog and of the
\* resource catalog has a server name that the connection map resolves to a
\* connection, and that connection is initialized or has been disconnected.
C23_CatalogResolves ==
    /\ \A name \in DOMAIN available_tools : Resolves(available_tools[name])
    /\ \A uri \in DOMAIN available_resources : Resolves(available_resources[uri])

\* the same for configurations whose mapping keys are the definitions' names
C23_ResolvesWhenKeyedByName ==
    (\A i \in DOMAIN servers : servers[i].key = servers[i].name) => C23_CatalogResolves

\* the catalog holds a tool whose server name is no key of the map
C23_Witness ==
    \E name \in DOMAIN available_tools :
        /\ client_initialized
        /\ ConnectionOf(server_connections, available_tools[name].server_name) = None
        /\ conns[available_tools[name].conn].initialized


\* ------------------------------------------------------------------------
\* Every entry point over one connection whose provider fails in every way:
\* it does not spawn, exits, answers with errors, and writes lines outside
\* the protocol (unparsable lines, requests of its own, stray responses).
NextFaults ==
    \/ \E t \in Threads : ~client_initialized /\ CallInitialize(t)
    \/ \E t \in Threads : CallExecuteTool(t, "add")
    \/ \E t \in Threads : RunAgent(t, [kind |-> "text", prose |-> "", fence |-> "",
                                       body |-> "{\"tool_name\": \"add\", \"parameters\": {\"a\": 2}}",
                                       closed |-> FALSE])
    \/ \E t \in Threads, c \in DOMAIN conns : CallConnectionCallTool(t, c, "add")
    \/ \E t \in Threads, c \in DOMAIN conns :
          CallConnectionReadResource(t, c, "file:///a")
    \/ \E t \in Threads : CallReadResource(t, "file:///a")
    \/ \E t \in Threads : GetLoopCreate(t)
    \/ \E t \in Threads : RunUntilComplete(t)
    \/ \E t \in Threads : InitializeBegin(t)
    \/ \E t \in Threads : ConnectStart(t)
    \/ \E t \in Threads : InitializeAggregate(t)
    \/ \E t \in Threads : ExecuteTool(t)
    \/ \E t \in Threads : RegistryReadResource(t)
    \/ \E t \in Threads : ReadLine(t)
    \/ \E c \in DOMAIN conns : ProviderServe(c)
    \/ \E c \in DOMAIN conns : ProviderServeMalformed(c)
    \/ \E c \in DOMAIN conns : ProviderEmit(c)
    \/ \E c \in DOMAIN conns : ProviderExit(c)

InitFaults == InitWith(WireConfigs, 1, FaultOps, MaxChaos)
SpecFaults == InitFaults /\ [][NextFaults]_vars

\* C24: whatever the provider of a connection does, no operation ends by
\* raising: connect hands a boolean to initialize, and call_tool,
\* read_resource, execute_tool and the query bridge end with a value, a
\* (false, message) pair when the request failed.
C24_NoFaultEscapes ==
    \A t \in Threads :
        /\ th[t].ret.kind # "raised"
        /\ \A i \in DOMAIN th[t].results : th[t].results[i] \in BOOLEAN
        /\ (th[t].pc = "idle" /\ th[t].op # "") => th[t].ret.kind = "value"
        /\ (/\ th[t].pc = "idle"
            /\ th[t].op \in {"call_tool", "conn_read_resource", "read_resource", "execute_tool"}
            /\ th[t].track.handed = NoResponse
            /\ th[t].track.asked # None) => ~th[t].ret.ok

\* a tools/call was written to a running provider, the line read for it was
\* unparsable, and the call ended with (false, "No response from server")
C24_Witness ==
    \E t \in Threads :
        /\ th[t].pc = "idle"
        /\ th[t].op \in {"call_tool", "execute_tool"}
        /\ th[t].track.sentTo # None
        /\ proc[th[t].track.sentTo] = "running"
        /\ th[t].track.handed = NoResponse
        /\ th[t].ret = Value(FALSE, "No response from server", "")

\* ------------------------------------------------------------------------
\* has_capability.  A Python string is the sequence of its characters, so
\* that lower() and the substring test "in" are computed, not assumed.
LowerCase == <<"a","b","c","d","e","f","g","h","i","j","k","l","m",
               "n","o","p","q","r","s","t","u","v","w","x","y","z">>
UpperCase == <<"A","B","C","D","E","F","G","H","I","J","K","L","M",
               "N","O","P","Q","R","S","T","U","V","W","X","Y","Z">>

\* str.lower() and str.upper(), character by character
LowerChar(c) ==
    IF \E i \in DOMAIN UpperCase : UpperCase[i] = c
    THEN LowerCase[CHOOSE i \in DOMAIN UpperCase : UpperCase[i] = c]
    ELSE c
UpperChar(c) ==
    IF \E i \in DOMAIN LowerCase : LowerCase[i] = c
    THEN UpperCase[CHOOSE i \in DOMAIN LowerCase : LowerCase[i] = c]
    ELSE c
Lower(s) == [i \in DOMAIN s |-> LowerChar(s[i])]
Upper(s) == [i \in DOMAIN s |-> UpperChar(s[i])]

\* Python's  sub in s  on strings
Contains(sub, s) ==
    \E i \in 0..(Len(s) - Len(sub)) : SubSeq(s, i + 1, i + Len(sub)) = sub

\* the dict literal of has_capability, in its order: <<topic, keywords>>
capability_patterns == <<
    <<<<"w", "e", "a", "t", "h", "e", "r">>,
      <<<<"f", "o", "r", "e", "c", "a", "s", "t">>,
        <<"w", "e", "a", "t", "h", "e", "r">>,
        <<"a", "l", "e", "r", "t", "s">>,
        <<"t", "e", "m", "p", "e", "r", "a", "t", "u", "r", "e">>,
        <<"c", "l", "i", "m", "a", "t", "e">>>> >>,
    <<<<"m", "a", "t", "h">>,
      <<<<"a", "d", "d">>,
        <<"s", "u", "b">>,
        <<"m", "u", "l", "t", "i", "p", "l", "y">>,
        <<"c", "a", "l", "c", "u", "l", "a", "t", "e">>,
        <<"s", "o", "l", "v", "e">>,
        <<"e", "q", "u", "a", "t", "i", "o", "n">>>> >>,
    <<<<"s", "e", "a", "r", "c", "h">>,
      <<<<"s", "e", "a", "r", "c", "h">>,
        <<"f", "i", "n", "d">>,
        <<"l", "o", "o", "k", "u", "p">>>> >>,
    <<<<"f", "i", "l", "e", "s", "y", "s", "t", "e", "m">>,
      <<<<"l", "i", "s", "t", "_", "f", "i", "l", "e", "s">>,
        <<"r", "e", "a", "d", "_", "f", "i", "l", "e">>,
        <<"w", "r", "i", "t", "e", "_", "f", "i", "l", "e">>,
        <<"f", "i", "l", "e">>>> >>,
    <<<<"d", "a", "t", "a", "b", "a", "s", "e">>,
      <<<<"q", "u", "e", "r", "y">>,
        <<"t", "a", "b", "l", "e">>,
        <<"s", "q", "l">>,
        <<"d", "a", "t", "a", "b", "a", "s", "e">>>> >>,
    <<<<"u", "s", "d", "a">>,
      <<<<"f", "o", "o", "d">>,
        <<"n", "u", "t", "r", "i", "t", "i", "o", "n">>,
        <<"u", "s", "d", "a">>>> >>,
    <<<<"f", "o", "o", "d">>,
      <<<<"f", "o", "o", "d">>,
        <<"n", "u", "t", "r", "i", "t", "i", "o", "n">>,
        <<"u", "s", "d", "a">>>> >>,
    <<<<"n", "u", "t", "r", "i", "t", "i", "o", "n">>,
      <<<<"f", "o", "o", "d">>,
        <<"n", "u", "t", "r", "i", "t", "i", "o", "n">>,
        <<"u", "s", "d", "a">>>> >> >>

KnownTopics == {capability_patterns[i][1] : i \in DOMAIN capability_patterns}
PatternsOf(topic) ==
    capability_patterns[CHOOSE i \in DOMAIN capability_patterns :
                            capability_patterns[i][1] = topic][2]

\* the inner loop: the first keyword contained in the lower-cased name
RECURSIVE AnyPattern(_, _, _)
AnyPattern(patterns, j, tool_name) ==
    IF j > Len(patterns) THEN FALSE
    ELSE IF Contains(patterns[j], Lower(tool_name)) THEN TRUE
    ELSE AnyPattern(patterns, j + 1, tool_name)

\* the first loop over the catalog, in dict order, returning at the first hit
RECURSIVE ScanPatterns(_, _, _)
ScanPatterns(order, i, patterns) ==
    IF i > Len(order) THEN FALSE
    ELSE IF AnyPattern(patterns, 1, order[i]) THEN TRUE
    ELSE ScanPatterns(order, i + 1, patterns)

\* the second loop: the lower-cased topic inside a lower-cased name
RECURSIVE ScanNames(_, _, _)
ScanNames(order, i, capability_lower) ==
    IF i > Len(order) THEN FALSE
    ELSE IF Contains(capability_lower, Lower(order[i])) THEN TRUE
    ELSE ScanNames(order, i + 1, capability_lower)

\* a has_capability that answers for a known topic from its keywords alone
HasCapabilityKnownOnly(order, capability) ==
    LET capability_lower == Lower(capability)
    IN  IF capability_lower \in KnownTopics
        THEN ScanPatterns(order, 1, PatternsOf(capability_lower))
        ELSE ScanNames(order, 1, capability_lower)

\* has_capability over the keys of available_tools in dict order
HasCapability(order, capability) ==
    LET capability_lower == Lower(capability)
    IN  IF /\ capability_lower \in KnownTopics
           /\ ScanPatterns(order, 1, PatternsOf(capability_lower))
        THEN TRUE
        ELSE ScanNames(order, 1, capability_lower)

\* tool names a provider may list and topics a caller may ask about
CapabilityNames == {<<"a", "d", "d">>,
                    <<"A", "D", "D">>,
                    <<"G", "e", "t", "_", "F", "o", "r", "e", "c", "a", "s", "t">>,
                    <<"m", "a", "t", "h">>,
                    <<"r", "e", "a", "d", "_", "f", "i", "l", "e">>,
                    <<"x">>}
CapabilityTopics == {<<"m", "a", "t", "h">>,
                     <<"M", "A", "T", "H">>,
                     <<"w", "e", "a", "t", "h", "e", "r">>,
                     <<"f", "i", "l", "e">>,
                     <<"f", "i", "l", "e", "s", "y", "s", "t", "e", "m">>,
                     <<>>,
                     <<"A", "d", "d">>,
                     <<"u", "s", "d", "a">>}

\* the keys of a catalog in dict order: no key twice
CapabilityCatalogs ==
    {order \in UNION {[1..n -> CapabilityNames] : n \in 0..MaxTools} :
        \A i, j \in DOMAIN order : i # j => order[i] # order[j]}

\* has_capability(capability) on a registry whose catalog has the keys order
CallHasCapability(t, order, capability) ==
    /\ th[t].pc = "idle"
    /\ th[t].opsLeft > 0
    /\ th' = [th EXCEPT ![t] =
                [IdleThread(th[t].opsLeft - 1) EXCEPT
                    !.op = "has_capability",
                    !.held = [ref |-> "catalog",
                              value |-> [order |-> order, capability |-> capability]],
                    !.ret = Value(HasCapability(order, capability), "", "")]]
    /\ UNCHANGED <<servers, conns, proc, stdin, stdout,
                   server_connections, available_tools, available_resources,
                   client_initialized, wrapper_loop, loops, nextId, written, chaos>>

NextCapability ==
    \E t \in Threads, order \in CapabilityCatalogs, capability \in CapabilityTopics :
        CallHasCapability(t, order, capability)

InitCapability == InitWith({<<>>}, 1, CapabilityOps, 0)
SpecCapability == InitCapability /\ [][NextCapability]_vars

\* the same keys in another order, and in another letter case
Reordered(order) ==
    {[i \in DOMAIN order |-> order[p[i]]] : p \in Permutations(DOMAIN order)}
Recased(s) == {s, Lower(s), Upper(s)}

\* C25: has_capability(topic) is true exactly when the lower-cased topic is
\* a known topic and some lower-cased tool name contains one of its
\* keywords, or the lower-cased topic is a substring of some lower-cased
\* tool name; the answer is the same for every iteration order of the
\* catalog and every letter case of the topic and of the tool names.
C25_HasCapability ==
    \A t \in Threads :
        (th[t].op = "has_capability" /\ th[t].pc = "idle") =>
            LET order == th[t].held.value.order
                topic == th[t].held.value.capability
                names == {order[i] : i \in DOMAIN order}
                said  == \/ /\ Lower(topic) \in KnownTopics
                            /\ \E n \in names :
                                 \E j \in DOMAIN PatternsOf(Lower(topic)) :
                                    Contains(PatternsOf(Lower(topic))[j], Lower(n))
                         \/ \E n \in names : Contains(Lower(topic), Lower(n))
            IN  /\ th[t].ret.ok = said
                /\ \A other \in Reordered(order) :
                      HasCapability(other, topic) = th[t].ret.ok
                /\ \A again \in Recased(topic) :
                      /\ HasCapability(order, again) = th[t].ret.ok
                      /\ HasCapability([i \in DOMAIN order |-> Lower(order[i])], again)
                            = th[t].ret.ok
                      /\ HasCapability([i \in DOMAIN order |-> Upper(order[i])], again)
                            = th[t].ret.ok

\* an upper-case known topic answered true from the substring loop alone:
\* no keyword of "math" is in the name "math"
C25_Witness ==
    \E t \in Threads :
        /\ th[t].op = "has_capability" /\ th[t].pc = "idle"
        /\ th[t].held.value.capability = <<"M", "A", "T", "H">>
        /\ th[t].held.value.order = << <<"x">>, <<"m", "a", "t", "h">> >>
        /\ th[t].ret.ok


\* ------------------------------------------------------------------------
\* The order of the handshake on one connection, under SpecFaults.

\* thread t waits on connection c for the response to a request of method m
Awaits(t, c, m) ==
    th[t].pc = "wait" /\ th[t].req.conn = c /\ th[t].req.method = m

\* in this step _send_request hands the awaited response, or None, to thread t
Handed(t) == th'[t].track.asked = th[t].req.id /\ th'[t].req # th[t].req

\* the line thread t reads in this step is the response to its request and
\* has no error field
ReadsCleanResponse(t, c) ==
    /\ conns[c].process
    /\ stdout[c] # <<>>
    /\ stdout'[c] = Tail(stdout[c])
    /\ Classify(Head(stdout[c]), th[t].req.id) = "match"
    /\ ~HasError(Head(stdout[c]))

\* C26: on every connection the initialize request is the first line
\* written; notifications/initialized is written only in the step that read
\* an initialize response without an error field; tools/list follows the
\* notification and resources/list is written only when the tools/list
\* exchange has resolved; the initialized flag turns true only when both
\* discovery exchanges have resolved, and a tools/call is written only on a
\* connection whose flag is already true and whose handshake nobody awaits.
C26_HandshakeOrder ==
    [][/\ \A c \in DOMAIN stdin' :
            c \notin DOMAIN stdin => stdin'[c] = <<>> /\ proc'[c] = "unspawned"
       /\ \A c \in DOMAIN stdin :
            LET new == NewLines(c)
            IN  /\ proc[c] = "unspawned" =>
                      /\ stdin[c] = <<>>
                      /\ \/ stdin'[c] = <<>> /\ proc'[c] = "unspawned"
                         \/ /\ Len(stdin'[c]) = 1
                            /\ IsRequest(stdin'[c][1])
                            /\ stdin'[c][1].method = "initialize"
                            /\ proc'[c] = "running"
                /\ \A i \in DOMAIN new :
                      /\ new[i].method = "initialize" => proc[c] = "unspawned"
                      /\ new[i].method = "notifications/initialized" =>
                            \E t \in Threads :
                                /\ Awaits(t, c, "initialize")
                                /\ Handed(t)
                                /\ ReadsCleanResponse(t, c)
                      /\ new[i].method = "tools/list" =>
                            /\ i > 1
                            /\ new[i - 1].method = "notifications/initialized"
                      /\ new[i].method = "resources/list" =>
                            \E t \in Threads :
                                Awaits(t, c, "tools/list") /\ Handed(t)
                      /\ new[i].method \in {"tools/call", "resources/read"} =>
                            /\ conns[c].initialized
                            /\ \A t \in Threads : ~(th[t].pc = "wait" /\ th[t].req.conn = c)
                /\ (~conns[c].initialized /\ conns'[c].initialized) =>
                      \E t \in Threads :
                          /\ Handed(t)
                          /\ \/ Awaits(t, c, "resources/list")
                             \* the remaining exchanges failed on the broken pipe
                             \/ Awaits(t, c, "tools/list") /\ ~Writable(c)
                             \/ /\ Awaits(t, c, "initialize")
                                /\ ReadsCleanResponse(t, c)
                                /\ ~Writable(c)
      ]_vars

\* a whole handshake was written in order (five lines at least with the
\* call), a server request arrived in between, and a tools/call is on its
\* way to the initialized connection that discovered the tool
C26_Witness ==
    \E c \in DOMAIN stdin :
        /\ conns[c].initialized
        /\ "add" \in DOMAIN conns[c].tools
        /\ chaos < MaxChaos
        /\ \E r \in Sent(c) : r.method = "tools/call"
        /\ \E t \in Threads : th[t].track.sentTo = c /\ th[t].pc = "wait"


\* ------------------------------------------------------------------------
\* The lifecycle of the connections of a registry with two enabled
\* servers, under every operation of the registry and disconnect() on a
\* connection it holds; the providers follow the protocol, answer a list
\* request with a malformed list, or exit.
LifeConfigs == {<<[key |-> "math_tool", name |-> "math_tool", enabled |-> TRUE],
                  [key |-> "weather", name |-> "weather", enabled |-> TRUE]>>}

NextLife ==
    \/ \E t \in Threads : ~client_initialized /\ CallInitialize(t)
    \/ \E t \in Threads : CallGetAvailableTools(t)
    \/ \E t \in Threads : CallExecuteTool(t, "add")
    \/ \E t \in Threads : CallReadResource(t, "file:///a")
    \/ \E t \in Threads, c \in DOMAIN conns : CallDisconnect(t, c)
    \/ \E t \in Threads : CallCleanup(t)
    \/ \E t \in Threads : GetLoopCreate(t)
    \/ \E t \in Threads : RunUntilComplete(t)
    \/ \E t \in Threads : InitializeBegin(t)
    \/ \E t \in Threads : ConnectStart(t)
    \/ \E t \in Threads : InitializeAggregate(t)
    \/ \E t \in Threads : ExecuteTool(t)
    \/ \E t \in Threads : RegistryReadResource(t)
    \/ \E t \in Threads : ReadLine(t)
    \/ \E c \in DOMAIN conns : ProviderServe(c)
    \/ \E c \in DOMAIN conns : ProviderServeMalformed(c)
    \/ \E c \in DOMAIN conns : ProviderExit(c)

InitLife == InitWith(LifeConfigs, 1, LifeOps, 0)
SpecLife == InitLife /\ [][NextLife]_vars

HandshakeMethods == {"initialize", "tools/list", "resources/list"}

\* the state of connection c: "unconnected" while initialize() has built
\* it and not yet awaited its connect(), "handshaking" while connect() is
\* awaited, "initialized" while the flag is set, and "closed" otherwise: its
\* connect() returned False (failed) or disconnect() reset the flag
LifeState(c) ==
    IF \E t \in Threads : /\ c \in Range(th[t].todo)
                          /\ ~(th[t].pc = "wait" /\ th[t].req.conn = c)
    THEN "unconnected"
    ELSE IF \E t \in Threads : /\ th[t].pc = "wait" /\ th[t].req.conn = c
                               /\ th[t].req.method \in HandshakeMethods
    THEN "handshaking"
    ELSE IF conns[c].initialized THEN "initialized"
    ELSE "closed"

\* in this step the connect() of a connection returns False to the gather
ConnectFails ==
    \E t \in Threads : th'[t].results = Append(th[t].results, FALSE)

\* the entries a step adds to a catalog or replaces in it
NewEntries(before, after) ==
    {after[k] : k \in {x \in DOMAIN after : x \notin DOMAIN before \/ after[x] # before[x]}}

\* C27: a connection starts unconnected and moves only to handshaking,
\* from there to initialized or to failed, and from initialized to
\* disconnected; a connection that failed or was disconnected never hand-
\* shakes and never is initialized again; and every entry an aggregation
\* puts into a catalog was discovered by a connection that is initialized
\* at that moment, whatever the other connections hold in their own maps.
\* (A spawn that fails takes connect() from its call to its failure in one
\* step, passing through handshaking.)
C27_Lifecycle ==
    [][/\ \A c \in DOMAIN conns' :
            c \notin DOMAIN conns => LifeState(c)' = "unconnected"
       /\ \A c \in DOMAIN conns :
            LET from == LifeState(c)
                to == LifeState(c)'
            IN  /\ from = "unconnected" =>
                      \/ to \in {"unconnected", "handshaking"}
                      \/ to = "closed" /\ ConnectFails /\ proc'[c] = "unspawned"
                /\ from = "handshaking" =>
                      \/ to \in {"handshaking", "initialized"}
                      \/ to = "closed" /\ ConnectFails
                /\ from = "initialized" =>
                      \/ to = "initialized"
                      \/ to = "closed" /\ ~conns'[c].process
                /\ from = "closed" => to = "closed"
       /\ \A e \in NewEntries(available_tools, available_tools')
                      \cup NewEntries(available_resources, available_resources') :
            /\ e.conn \in DOMAIN conns
            /\ conns[e.conn].initialized
      ]_vars

\* initialize() aggregated while one connection had failed in discovery
\* with a tool already in its own map: the catalog is not empty and none
\* of its entries comes from that connection
C27_Witness ==
    \E c, d \in DOMAIN conns :
        /\ LifeState(c) = "closed"
        /\ proc[c] = "terminated"
        /\ conns[c].process
        /\ "add" \in DOMAIN conns[c].tools
        /\ conns[d].initialized
        /\ client_initialized
        /\ available_tools # EmptyMap
        /\ \A name \in DOMAIN available_tools : available_tools[name].conn = d


\* ------------------------------------------------------------------------
\* Requests that fail on a registry with two connections: the providers
\* answer, exit, and write one line outside the protocol.
NextFrame ==
    \/ \E t \in Threads : ~client_initialized /\ CallInitialize(t)
    \/ \E t \in Threads : CallExecuteTool(t, "add")
    \/ \E t \in Threads : CallReadResource(t, "file:///a")
    \/ \E t \in Threads : GetLoopCreate(t)
    \/ \E t \in Threads : RunUntilComplete(t)
    \/ \E t \in Threads : InitializeBegin(t)
    \/ \E t \in Threads : ConnectStart(t)
    \/ \E t \in Threads : InitializeAggregate(t)
    \/ \E t \in Threads : ExecuteTool(t)
    \/ \E t \in Threads : RegistryReadResource(t)
    \/ \E t \in Threads : ReadLine(t)
    \/ \E c \in DOMAIN conns : ProviderServe(c)
    \/ \E c \in DOMAIN conns : ProviderEmit(c)
    \/ \E c \in DOMAIN conns : ProviderExit(c)

InitFrame == InitWith(LifeConfigs, 1, FrameOps, 1)
SpecFrame == InitFrame /\ [][NextFrame]_vars

\* thread t awaits the response to a tools/call or a resources/read and in
\* this step its request fails: the line it reads does not parse, or the
\* stream has ended
RequestFails(t) ==
    LET c == th[t].req.conn
    IN  /\ th[t].pc = "wait"
        /\ th[t].req.method \in {"tools/call", "resources/read"}
        /\ th'[t] # th[t]
        /\ \/ stdout[c] = <<>>
           \/ ~conns[c].process
           \/ Classify(Head(stdout[c]), th[t].req.id) = "fail"

\* C28: when the response line of a tools/call or resources/read does not
\* parse, or the stream ends before a matching response, the call returns
\* (false, message) and nothing else changes: the flag and the maps of the
\* connection, the catalogs, the connection map, and the flag, maps, process
\* and streams of every other connection.
C28_FailsOnlyTheRequest ==
    [][\A t \in Threads :
        RequestFails(t) =>
            LET c == th[t].req.conn
            IN  /\ th'[t].pc = "idle"
                /\ th'[t].ret.kind = "value"
                /\ ~th'[t].ret.ok
                /\ th[t].req.method = "tools/call" =>
                      th'[t].ret = Value(FALSE, "No response from server", "")
                /\ conns' = conns
                /\ proc' = proc
                /\ stdin' = stdin
                /\ available_tools' = available_tools
                /\ available_resources' = available_resources
                /\ server_connections' = server_connections
                /\ client_initialized' = client_initialized
                /\ \A d \in DOMAIN stdout : d # c => stdout'[d] = stdout[d]
      ]_vars

\* execute_tool ended with (false, "No response from server") over an
\* unparsable line of a running provider; its connection is still
\* initialized with its tools, next to a second initialized connection
C28_Witness ==
    \E t \in Threads, c, d \in DOMAIN conns :
        /\ c # d
        /\ th[t].pc = "idle"
        /\ th[t].op = "execute_tool"
        /\ th[t].track.sentTo = c
        /\ th[t].track.handed = NoResponse
        /\ th[t].ret = Value(FALSE, "No response from server", "")
        /\ chaos = 0
        /\ proc[c] = "running"
        /\ conns[c].initialized /\ "add" \in DOMAIN conns[c].tools
        /\ conns[d].initialized
        /\ "add" \in DOMAIN available_tools


\* ------------------------------------------------------------------------
\* What changes the catalogs and the connection map: every operation of
\* the synchronous wrapper on one registry.

\* the characters of the tool names the providers of this model list
Spelled(name) ==
    CASE name = "add" -> <<"a", "d", "d">>
      [] name = "sub" -> <<"s", "u", "b">>
      [] OTHER -> <<"m", "u", "l", "t", "i", "p", "l", "y">>

\* the keys of the tool catalog in some dict order
RECURSIVE KeysInOrder(_)
KeysInOrder(keys) ==
    IF keys = {} THEN <<>>
    ELSE LET k == CHOOSE x \in keys : TRUE
         IN  <<Spelled(k)>> \o KeysInOrder(keys \ {k})

\* DynamicMCPClientSync.has_capability on the registry's own catalog
CallRegistryHasCapability(t, capability) ==
    /\ th[t].pc = "idle"
    /\ th[t].opsLeft > 0
    /\ th' = [th EXCEPT ![t] =
                [IdleThread(th[t].opsLeft - 1) EXCEPT
                    !.op = "has_capability",
                    !.ret = Value(HasCapability(KeysInOrder(DOMAIN available_tools),
                                                capability), "", "")]]
    /\ UNCHANGED <<servers, conns, proc, stdin, stdout,
                   server_connections, available_tools, available_resources,
                   client_initialized, wrapper_loop, loops, nextId, written, chaos>>

NextCatalog ==
    \/ \E t \in Threads : ~client_initialized /\ CallInitialize(t)
    \/ \E t \in Threads : CallGetAvailableTools(t)
    \/ \E t \in Threads : CallGetAvailableResources(t)
    \/ \E t \in Threads : CallGetToolsDescription(t)
    \/ \E t \in Threads, name \in {"add", "multiply"} : CallExecuteTool(t, name)
    \/ \E t \in Threads, uri \in ResourceUris : CallReadResource(t, uri)
    \/ \E t \in Threads, capability \in {<<"m", "a", "t", "h">>, <<"S", "U", "B">>} :
          CallRegistryHasCapability(t, capability)
    \/ \E t \in Threads : CallCleanup(t)
    \/ \E t \in Threads : GetLoopCreate(t)
    \/ \E t \in Threads : RunUntilComplete(t)
    \/ \E t \in Threads : InitializeBegin(t)
    \/ \E t \in Threads : ConnectStart(t)
    \/ \E t \in Threads : InitializeAggregate(t)
    \/ \E t \in Threads : ExecuteTool(t)
    \/ \E t \in Threads : RegistryReadResource(t)
    \/ \E t \in Threads : ReadLine(t)
    \/ \E c \in DOMAIN conns : ProviderServe(c)
    \/ \E c \in DOMAIN conns : ProviderExit(c)

InitCatalog == InitWith(WireConfigs, 1, CatalogOps, 0)
SpecCatalog == InitCatalog /\ [][NextCatalog]_vars

\* thread t is inside DynamicMCPClient.initialize(), called as such or by
\* a getter that found the registry not initialized
InsideInitialize(t) ==
    /\ th[t].op \in {"initialize"} \cup Getters
    /\ th[t].pc \in {"coro", "connect"}

\* the catalogs and the connection map are the same after the step
CatalogsUnchanged ==
    /\ available_tools' = available_tools
    /\ available_resources' = available_resources
    /\ server_connections' = server_connections

\* C29: a step changes the tool catalog, the resource catalog or the
\* connection map only inside initialize() or as cleanup(); every step of
\* execute_tool, read_resource and has_capability, and every step of a
\* getter on an initialized registry, leaves the three unchanged, whether
\* the call ends with success or with failure.
C29_OnlyInitializeAndCleanup ==
    [][/\ ~CatalogsUnchanged =>
            \E t \in Threads :
                \/ InsideInitialize(t) /\ th'[t] # th[t]
                \/ th[t].pc = "idle" /\ th'[t].op = "cleanup" /\ th'[t] # th[t]
       /\ \A t \in Threads :
            (/\ th'[t] # th[t]
             /\ \/ th'[t].op \in {"execute_tool", "read_resource", "has_capability"}
                \/ th'[t].op \in Getters /\ client_initialized)
            => CatalogsUnchanged
      ]_vars

\* on an initialized registry an execute_tool that reached the provider
\* ended with a failure, and the catalog and the map are still filled
C29_Witness ==
    \E t \in Threads :
        /\ th[t].pc = "idle"
        /\ th[t].op = "execute_tool"
        /\ th[t].track.sentTo # None
        /\ ~th[t].ret.ok
        /\ client_initialized
        /\ "add" \in DOMAIN available_tools
        /\ server_connections # <<>>


\* ------------------------------------------------------------------------
\* initialize() over two enabled servers.  asyncio.gather runs the
\* connect() coroutines on one event loop; connect() holds no point at
\* which it suspends (Popen, write, flush and readline are blocking calls,
\* every await is on a coroutine of the same file), so each coroutine runs
\* to its end before the next one starts, which is how ConnectStart takes
\* the connections of th.todo one after the other.
NextGather ==
    \/ \E t \in Threads : ~client_initialized /\ CallInitialize(t)
    \/ \E t \in Threads : GetLoopCreate(t)
    \/ \E t \in Threads : RunUntilComplete(t)
    \/ \E t \in Threads : InitializeBegin(t)
    \/ \E t \in Threads : ConnectStart(t)
    \/ \E t \in Threads : InitializeAggregate(t)
    \/ \E t \in Threads : ReadLine(t)
    \/ \E c \in DOMAIN conns : ProviderServe(c)
    \/ \E c \in DOMAIN conns : ProviderExit(c)

InitGather == InitWith(LifeConfigs, 1, GatherOps, 0)

\* the steps of the client: the thread that runs the loop takes every step
\* it can take
ClientStep ==
    \E t \in Threads :
        \/ GetLoopCreate(t)
        \/ RunUntilComplete(t)
        \/ InitializeBegin(t)
        \/ ConnectStart(t)
        \/ InitializeAggregate(t)
        \/ ReadLine(t)

\* the providers of the connections after the first answer what they are
\* asked; the provider of the first connection may stay silent for ever
SiblingServes == \E c \in DOMAIN conns : c # 1 /\ ProviderServe(c)

SpecGather ==
    InitGather /\ [][NextGather]_vars /\ WF_vars(ClientStep) /\ WF_vars(SiblingServes)

\* connection c awaits the response to its initialize request
AwaitsInitialize(c) ==
    \E t \in Threads :
        th[t].pc = "wait" /\ th[t].req.conn = c /\ th[t].req.method = "initialize"

\* initialize() has built connection d and its connect() has not begun
NotStarted(d) == d \in DOMAIN conns /\ LifeState(d) = "unconnected"

\* C30: the handshakes of initialize() are independent: a connection built
\* by initialize() has its process spawned and its initialize request sent
\* whatever the providers of the other connections do, so a provider that
\* never answers does not keep a sibling from starting its handshake.
C30_SiblingsNotStalled ==
    \A d \in 1..2 : NotStarted(d) ~> ~NotStarted(d)

\* what the code does instead: while a connection awaits a response, no
\* sibling is spawned and no sibling awaits anything
C30_OneHandshakeAtATime ==
    \A c, d \in DOMAIN conns :
        (c # d /\ AwaitsInitialize(c) /\ LifeState(d) = "unconnected") =>
            /\ proc[d] = "unspawned"
            /\ stdin[d] = <<>>
            /\ \A t \in Threads : ~ENABLED ConnectStart(t)

\* the first provider has read the initialize request and not answered;
\* the second connection is still unconnected, its process not spawned
C30_Witness ==
    /\ Len(conns) = 2
    /\ AwaitsInitialize(1)
    /\ proc[1] = "running"
    /\ stdout[1] = <<>>
    /\ LifeState(2) = "unconnected"
    /\ proc[2] = "unspawned"


\* ------------------------------------------------------------------------
\* A pending request.  The thread that runs the loop takes every step it
\* can take; nothing is assumed of the provider, which may answer, stay
\* silent, exit, or write a line outside the protocol.
NextPending ==
    \/ \E t \in Threads : ~client_initialized /\ CallInitialize(t)
    \/ \E t \in Threads : CallExecuteTool(t, "add")
    \/ \E t \in Threads : GetLoopCreate(t)
    \/ \E t \in Threads : RunUntilComplete(t)
    \/ \E t \in Threads : InitializeBegin(t)
    \/ \E t \in Threads : ConnectStart(t)
    \/ \E t \in Threads : InitializeAggregate(t)
    \/ \E t \in Threads : ExecuteTool(t)
    \/ \E t \in Threads : ReadLine(t)
    \/ \E c \in DOMAIN conns : ProviderServe(c)
    \/ \E c \in DOMAIN conns : ProviderEmit(c)
    \/ \E c \in DOMAIN conns : ProviderExit(c)

InitPending == InitWith(WireConfigs, 1, PendingOps, 1)

\* the steps of the thread inside run_until_complete
LoopStep ==
    \E t \in Threads :
        \/ InitializeBegin(t)
        \/ ConnectStart(t)
        \/ InitializeAggregate(t)
        \/ ExecuteTool(t)
        \/ ReadLine(t)

SpecPending == InitPending /\ [][NextPending]_vars /\ WF_vars(LoopStep)

\* the ids a request of this specification can carry: three for the
\* handshake of an initialize() and one for each call
PendingIds == 1..(4 * PendingOps)

\* thread t is inside _send_request's read loop for the request id
Pending(t, id) == th[t].pc = "wait" /\ th[t].req.id = id

\* what ends the read loop is in the pipe or has happened: a message with
\* the awaited id that is no request, an unparsable line, or the end of
\* the stream
Decided(t) ==
    LET c == th[t].req.conn
    IN  \/ ~conns[c].process
        \/ proc[c] # "running"
        \/ \E i \in DOMAIN stdout[c] :
              Classify(stdout[c][i], th[t].req.id) \in {"match", "fail"}

\* in this step the read loop of thread t hands its caller a result
Returns(t) == th[t].pc = "wait" /\ th'[t].req # th[t].req

\* the line the read loop of thread t takes in this step, if it takes one
Taken(t) ==
    LET c == th[t].req.conn
    IN  IF th[t].pc = "wait" /\ conns[c].process /\ stdout[c] # <<>>
           /\ stdout'[c] = Tail(stdout[c])
        THEN Classify(Head(stdout[c]), th[t].req.id)
        ELSE "nothing"

\* C31: a pending request returns to its caller once the provider has
\* written a response with the awaited id or an unparsable line, or has
\* closed its output; it returns in no other way (a silent provider, and
\* one that writes only requests of its own and messages for other ids,
\* keeps the caller waiting: there is no timeout); and every request of the
\* provider read meanwhile is answered on its input pipe.
C31_PendingRequest ==
    /\ \A t \in 1..1 : \A id \in PendingIds :
          (Pending(t, id) /\ Decided(t)) ~> ~Pending(t, id)
    /\ [][\A t \in Threads :
            /\ Returns(t) =>
                  \/ Taken(t) \in {"match", "fail"}
                  \/ ~conns[th[t].req.conn].process
                  \/ stdout[th[t].req.conn] = <<>> /\ proc[th[t].req.conn] # "running"
            /\ Taken(t) \in {"server_request", "skip"} =>
                  /\ th'[t].pc = "wait"
                  /\ th'[t].req = th[t].req
            /\ (Taken(t) = "server_request" /\ Writable(th[t].req.conn)) =>
                  LET new == NewLines(th[t].req.conn)
                  IN  /\ Len(new) = 1
                      /\ new[1] = ServerRequestReply(Head(stdout[th[t].req.conn]))
      ]_vars

\* the caller still waits for its tools/call; the provider, running and
\* silent about it, sent a request of its own, which was answered
C31_Witness ==
    \E t \in Threads :
        /\ th[t].pc = "wait"
        /\ th[t].req.method = "tools/call"
        /\ th[t].track.inbound # <<>>
        /\ proc[th[t].req.conn] = "running"
        /\ stdout[th[t].req.conn] = <<>>
        /\ chaos = 0


\* ------------------------------------------------------------------------
\* Which messages the read loop answers and which it returns, under
\* SpecPending.

\* the message the read loop of thread t parses in this step
Parses(t) ==
    LET c == th[t].req.conn
    IN  /\ th[t].pc = "wait"
        /\ conns[c].process
        /\ stdout[c] # <<>>
        /\ stdout'[c] = Tail(stdout[c])
        /\ Head(stdout[c]).kind = "obj"

\* in this step thread t hands the message to _handle_server_request
Answered(t) ==
    th'[t].track.inbound = Append(th[t].track.inbound, Head(stdout[th[t].req.conn]).method)

\* in this step thread t returns the message to the caller of its request
ReturnedToCaller(t) ==
    /\ th'[t].req # th[t].req
    /\ th'[t].track.asked = th[t].req.id
    /\ th'[t].track.handed = Head(stdout[th[t].req.conn])

\* C32: while thread t waits for the response to its request, a message it
\* reads is answered as a request of the provider exactly when it carries a
\* method and an id other than the awaited one, and a message whose id is
\* the awaited one is returned to the caller.
C32_InboundByIdMismatch ==
    [][\A t \in Threads :
        Parses(t) =>
            LET line == Head(stdout[th[t].req.conn])
            IN  /\ Answered(t) <=>
                      (line.method # "" /\ line.hasId /\ line.id # th[t].req.id)
                /\ (line.hasId /\ line.id = th[t].req.id) => ReturnedToCaller(t)
      ]_vars

\* what the read loop does: a message with a method and an id is answered
\* whatever its id, and a message without a method whose id is the awaited
\* one is returned
C32_InboundByMethodAndId ==
    [][\A t \in Threads :
        Parses(t) =>
            LET line == Head(stdout[th[t].req.conn])
            IN  /\ Answered(t) <=> (line.method # "" /\ line.hasId)
                /\ ReturnedToCaller(t) <=>
                      (line.method = "" /\ line.hasId /\ line.id = th[t].req.id)
      ]_vars

\* the next line thread t will read carries a method and the id it awaits
C32_Witness ==
    \E t \in Threads :
        /\ th[t].pc = "wait"
        /\ conns[th[t].req.conn].process
        /\ stdout[th[t].req.conn] # <<>>
        /\ Head(stdout[th[t].req.conn]).method # ""
        /\ Head(stdout[th[t].req.conn]).hasId
        /\ Head(stdout[th[t].req.conn]).id = th[t].req.id


\* ------------------------------------------------------------------------
\* initialize() over two enabled servers whose providers may have nothing
\* to offer.

\* the provider answers a list request with the empty list
ProviderServeEmpty(c) ==
    /\ proc[c] = "running"
    /\ NextRequest(c) # 0
    /\ stdin[c][NextRequest(c)].method \in {"tools/list", "resources/list"}
    /\ stdout' = [stdout EXCEPT ![c] =
                    Append(@, Response(stdin[c][NextRequest(c)].id, "content", <<>>, ""))]
    /\ stdin' = [stdin EXCEPT ![c] = SubSeq(@, NextRequest(c) + 1, Len(@))]
    /\ UNCHANGED <<servers, conns, proc, server_connections, available_tools,
                   available_resources, client_initialized, wrapper_loop, loops,
                   th, nextId, written, chaos>>

NextEmpty ==
    \/ NextGather
    \/ \E c \in DOMAIN conns : ProviderServeEmpty(c)

SpecEmpty == InitGather /\ [][NextEmpty]_vars

\* in this step thread t reads the answer to its resources/list request,
\* an empty list, on a connection whose tools/list left the tool map empty
EndsEmptyDiscovery(t) ==
    LET c == th[t].req.conn
    IN  /\ th[t].pc = "wait"
        /\ th[t].req.method = "resources/list"
        /\ conns[c].tools = EmptyMap
        /\ stdout[c] # <<>>
        /\ stdout'[c] = Tail(stdout[c])
        /\ Classify(Head(stdout[c]), th[t].req.id) = "match"
        /\ HasResult(Head(stdout[c]))
        /\ Items(Head(stdout[c])) = <<>>

\* connection c ended its handshake initialized with nothing discovered
EmptyHanded(c) ==
    /\ conns[c].initialized
    /\ conns[c].tools = EmptyMap
    /\ conns[c].resources = EmptyMap

\* C33: when tools/list and resources/list are answered with empty lists,
\* connect() returns true and the connection is initialized with empty
\* maps; such a connection makes initialize() return true and no entry of
\* the catalog comes from it.
C33_EmptyListsSucceed ==
    [][\A t \in Threads :
        /\ EndsEmptyDiscovery(t) =>
              /\ th'[t].results = Append(th[t].results, TRUE)
              /\ \E c \in DOMAIN conns : c = th[t].req.conn /\ EmptyHanded(c)'
        /\ (/\ th[t].pc = "connect" /\ th[t].todo = <<>> /\ th'[t].pc = "idle"
            /\ \E c \in Registered : EmptyHanded(c)) =>
              /\ th'[t].ret = Value(TRUE, "initialize", "")
              /\ \A k \in DOMAIN available_tools' :
                    ~EmptyHanded(available_tools'[k].conn)
              /\ \A k \in DOMAIN available_resources' :
                    ~EmptyHanded(available_resources'[k].conn)
              /\ (\A c \in Registered : EmptyHanded(c)) =>
                    available_tools' = EmptyMap /\ available_resources' = EmptyMap
      ]_vars

\* initialize() returned true with both connections initialized and
\* nothing discovered: the catalogs are empty
C33_Witness ==
    \E t \in Threads :
        /\ Finished(t, "initialize")
        /\ th[t].ret.ok
        /\ th[t].results = <<TRUE, TRUE>>
        /\ \A c \in Registered : EmptyHanded(c) /\ proc[c] = "running"
        /\ available_tools = EmptyMap
        /\ available_resources = EmptyMap


\* ------------------------------------------------------------------------
\* initialize() over definitions that are enabled or disabled and use the
\* stdio transport or one that is not implemented.

TransportConfigs ==
    {<<[key |-> "math_tool", name |-> "math_tool", enabled |-> e1, transport |-> t1],
       [key |-> "weather", name |-> "weather", enabled |-> e2, transport |-> t2],
       [key |-> "files", name |-> "files", enabled |-> e3, transport |-> "stdio"]>> :
        e1 \in BOOLEAN, e2 \in BOOLEAN, e3 \in BOOLEAN,
        t1 \in {"stdio", "sse"}, t2 \in {"stdio", "http"}}

InitTransport == InitWith(TransportConfigs, 1, GatherOps, 0)

SpecTransport == InitTransport /\ [][NextGather]_vars

\* the connections built from definition s
ConnectionsOf(s) == {c \in DOMAIN conns : conns[c].key = s.key}

\* initialize() has gone through its loop over the enabled definitions
PastLoop == \E t \in Threads : th[t].op = "initialize" /\ th[t].pc \in {"connect", "wait", "idle"}

\* the connections and catalog entries initialize() may have made
OnePerDefinition ==
    /\ \A i \in DOMAIN servers :
          Cardinality(ConnectionsOf(servers[i])) =
              IF servers[i].enabled /\ PastLoop THEN 1 ELSE 0
    /\ Len(server_connections) = Len(conns)
    /\ \A k \in DOMAIN available_tools :
          \E i \in DOMAIN servers :
              /\ servers[i].enabled
              /\ available_tools[k].conn \in ConnectionsOf(servers[i])
    /\ \A c \in DOMAIN conns :
          ConfigTransport(c) # "stdio" =>
              /\ proc[c] = "unspawned"
              /\ ~conns[c].process
              /\ ~conns[c].initialized
              /\ stdin[c] = <<>>
              /\ \A t \in Threads :
                    /\ th[t].pc = "wait" => th[t].req.conn # c
                    /\ c \in DOMAIN th[t].results => ~th[t].results[c]

\* a connection's subprocess starts at most once, from the state in which
\* nothing was spawned
SpawnsOnce ==
    \A c \in DOMAIN conns :
        /\ proc[c] # "unspawned" => proc'[c] # "unspawned"
        /\ (proc[c] # "running" /\ proc'[c] = "running") => proc[c] = "unspawned"

\* C34: initialize() creates exactly one connection and spawns at most one
\* subprocess per enabled definition; a disabled definition gets no
\* connection, no subprocess and no catalog entry; a definition whose
\* transport is not stdio gets a connection whose connect() returns false
\* and spawns nothing.
C34_OnePerEnabledDefinition == []OnePerDefinition /\ [][SpawnsOnce]_vars

\* initialize() has returned over an enabled stdio definition with a
\* running subprocess and tools in the catalog, an enabled definition of
\* another transport, and a disabled definition
C34_Witness ==
    \E t \in Threads :
        /\ Finished(t, "initialize")
        /\ Len(conns) = 2
        /\ \E i \in DOMAIN servers : ~servers[i].enabled
        /\ \E c \in DOMAIN conns : ConfigTransport(c) # "stdio" /\ ~th[t].results[c]
        /\ \E c \in DOMAIN conns :
              /\ ConfigTransport(c) = "stdio"
              /\ proc[c] = "running"
              /\ th[t].results[c]
              /\ \E k \in DOMAIN available_tools : available_tools[k].conn = c


\* ------------------------------------------------------------------------
\* The bridges over a reply that names a tool.

\* the replies in which the bridge reads a tool_name that is neither null
\* nor "null" and a parameters mapping, empty or not
ToolReplies(bridge) ==
    {Text(o) : o \in {o \in Outcomes :
        /\ Parsed(bridge, o).type = "object"
        /\ Parsed(bridge, o).tool_name \notin {Missing, JNull, "null"}
        /\ Parsed(bridge, o).parameters \in {"{a}", "{}"}}}

\* those of them whose mapping is empty
EmptyMappingReplies(bridge) ==
    {Text(o) : o \in {o \in Outcomes :
        /\ Text(o) \in ToolReplies(bridge)
        /\ Parsed(bridge, o).parameters = "{}"}}

\* in this step the bridge of thread t hands the tool of the reply to
\* execute_tool, once, and does not take the fallback path
Executes(t) ==
    /\ th'[t].op = "execute_tool"
    /\ th'[t].pc # "idle"
    /\ th'[t].arg = "add"
    /\ th'[t].opsLeft = th[t].opsLeft - 1

\* C35: a reply with a tool_name that is neither null nor "null" and a
\* parameters mapping, the empty mapping included, makes every bridge call
\* execute_tool once with that name and not take the fallback path.
C35_ToolReplyExecutes ==
    [][\A t \in Threads :
         (AsksOracle(t) /\ th'[t].chat.outcome \in ToolReplies(th'[t].chat.bridge)) =>
            Executes(t)
      ]_vars

\* what the bridges do: run_agent executes on every such reply, ChatHandler
\* on those whose mapping is not empty, and falls back on the empty mapping
C35_EmptyMappingFallsBack ==
    [][\A t \in Threads :
         (AsksOracle(t) /\ th'[t].chat.outcome \in ToolReplies(th'[t].chat.bridge)) =>
            IF /\ th'[t].chat.bridge = "chat_handler"
               /\ th'[t].chat.outcome \in EmptyMappingReplies("chat_handler")
            THEN /\ th'[t].op # "execute_tool"
                 /\ th'[t].ret = Value(TRUE, "fallback", "")
                 /\ written' = written
            ELSE Executes(t)
      ]_vars

\* ChatHandler had the tool add to offer, the oracle chose it with an empty
\* mapping, and the answer came from the fallback path
C35_Witness ==
    \E t \in Threads :
        /\ th[t].chat.bridge = "chat_handler"
        /\ th[t].chat.consulted
        /\ th[t].chat.outcome = "{\"tool_name\": \"add\", \"parameters\": {}}"
        /\ "add" \in DOMAIN available_tools
        /\ th[t].pc = "idle"
        /\ th[t].ret = Value(TRUE, "fallback", "")


\* ------------------------------------------------------------------------
\* initialize(), cleanup() and initialize() again over providers that do
\* not change: every subprocess can be spawned and answers the handshake
\* the same way each time it is started.

\* the tools the provider of the definition stored under key lists
FixedTools(key) == IF key = "math_tool" THEN <<"add", "sub">> ELSE <<"add">>

\* the provider's answer to a request of the handshake
FixedAnswer(key, request) ==
    CASE request.method = "initialize" ->
            Response(request.id, "other", <<>>, "capabilities")
      [] request.method = "tools/list" ->
            Response(request.id, "content", FixedTools(key), "")
      [] OTHER ->
            Response(request.id, "content", <<"file:///a">>, "")

ProviderServeUnchanged(c) ==
    /\ ProviderServe(c)
    /\ stdin[c][NextRequest(c)].method \in HandshakeMethods =>
          stdout'[c][Len(stdout'[c])] = FixedAnswer(conns[c].key, stdin[c][NextRequest(c)])

ConnectStartSpawned(t) ==
    /\ ConnectStart(t)
    /\ proc'[Head(th[t].todo)] = "running"

NextReinit ==
    \/ \E t \in Threads : ~client_initialized /\ CallInitialize(t)
    \/ \E t \in Threads, name \in {"add", "multiply"} : CallExecuteTool(t, name)
    \/ \E t \in Threads : CallReadResource(t, "file:///a")
    \/ \E t \in Threads : CallCleanup(t)
    \/ \E t \in Threads : GetLoopCreate(t)
    \/ \E t \in Threads : RunUntilComplete(t)
    \/ \E t \in Threads : InitializeBegin(t)
    \/ \E t \in Threads : ConnectStartSpawned(t)
    \/ \E t \in Threads : InitializeAggregate(t)
    \/ \E t \in Threads : ExecuteTool(t)
    \/ \E t \in Threads : RegistryReadResource(t)
    \/ \E t \in Threads : ReadLine(t)
    \/ \E c \in DOMAIN conns : ProviderServeUnchanged(c)

InitReinit == InitWith(Configs, 1, ReinitOps, 0)
SpecReinit == InitReinit /\ [][NextReinit]_vars

\* the registry holds no connection and no catalog entry and is not
\* initialized
Cleared ==
    /\ server_connections = <<>>
    /\ available_tools = EmptyMap
    /\ available_resources = EmptyMap
    /\ ~client_initialized

\* the tool catalog of one initialize() on a fresh registry, as the server
\* name of each tool: the enabled definitions in order, a later one
\* replacing the entries of an earlier one
RECURSIVE SingleInitialize(_, _)
SingleInitialize(catalog, i) ==
    IF i > Len(EnabledServers) THEN catalog
    ELSE SingleInitialize(
            Update(catalog, [n \in Range(FixedTools(EnabledServers[i].key)) |->
                                EnabledServers[i].name]),
            i + 1)

\* the key of the definition a call of tool k is routed to, None when the
\* connection map has no entry under the tool's server name
RoutedKey(k) ==
    LET c == ConnectionOf(server_connections, available_tools[k].server_name)
    IN  IF c = None THEN None ELSE conns[c].key

\* the same from the definitions alone
SingleRoutedKey(k) ==
    LET server_name == SingleInitialize(EmptyMap, 1)[k]
    IN  IF \E i \in DOMAIN EnabledServers : EnabledServers[i].key = server_name
        THEN server_name ELSE None

\* C36: after cleanup() the registry is cleared, and on a cleared registry
\* execute_tool and read_resource return "not found" for every name and
\* write nothing; an initialize() that follows yields the catalog and the
\* routing of a single initialize(), through connections that are live.
C36_CleanupThenInitialize ==
    /\ [][\A t \in Threads : CleansUp(t) => Cleared']_vars
    /\ [](\A t \in Threads :
            /\ (Finished(t, "execute_tool") /\ Cleared) =>
                  /\ th[t].ret = Value(FALSE, "Tool not found", th[t].arg)
                  /\ written = th[t].track.lines0
            /\ (Finished(t, "read_resource") /\ Cleared) =>
                  /\ th[t].ret = Value(FALSE, "Resource not found", th[t].arg)
                  /\ written = th[t].track.lines0
            /\ Finished(t, "initialize") =>
                  /\ DOMAIN available_tools = DOMAIN SingleInitialize(EmptyMap, 1)
                  /\ \A k \in DOMAIN available_tools :
                        /\ available_tools[k].server_name = SingleInitialize(EmptyMap, 1)[k]
                        /\ RoutedKey(k) = SingleRoutedKey(k)
                        /\ available_tools[k].conn \in Registered
                        /\ \A c \in Registered : conns[c].initialized /\ proc[c] = "running"
                  /\ DOMAIN available_resources =
                        IF EnabledServers = <<>> THEN {} ELSE {"file:///a"}
                  /\ \A u \in DOMAIN available_resources :
                        /\ available_resources[u].server_name =
                              EnabledServers[Len(EnabledServers)].name
                        /\ available_resources[u].conn \in Registered)

\* a second initialize() has returned after a cleanup: the connections of
\* the first are disconnected, the catalog holds the tools again, and one
\* of them is routed to a connection of the second
C36_Witness ==
    \E t \in Threads :
        /\ Finished(t, "initialize")
        /\ th[t].opsLeft = ReinitOps - 3
        /\ Len(conns) = 2 * Len(server_connections)
        /\ DOMAIN available_tools = {"add", "sub"}
        /\ RoutedKey("sub") = "math_tool"
        /\ ConnectionOf(server_connections, "math_tool") > Len(server_connections)
        /\ \A c \in 1..Len(server_connections) :
              ~conns[c].initialized /\ proc[c] \in {"terminated", "killed"}

\* on a registry that was cleaned up, with the connection that had
\* discovered add disconnected, execute_tool("add") found no tool
C36_WitnessCleared ==
    \E t \in Threads, c \in DOMAIN conns :
        /\ Finished(t, "execute_tool")
        /\ th[t].arg = "add"
        /\ Cleared
        /\ "add" \in DOMAIN conns[c].tools
        /\ proc[c] \in {"terminated", "killed"}
        /\ th[t].ret = Value(FALSE, "Tool not found", "add")


\* ------------------------------------------------------------------------
\* Any sequence of initialize() and cleanup() on one registry: initialize()
\* may be called again on a registry that is initialized, and then puts its
\* new connections in the map under the keys of the old ones.
NextOrphan ==
    \/ \E t \in Threads : CallInitialize(t)
    \/ \E t \in Threads : CallCleanup(t)
    \/ \E t \in Threads : GetLoopCreate(t)
    \/ \E t \in Threads : RunUntilComplete(t)
    \/ \E t \in Threads : InitializeBegin(t)
    \/ \E t \in Threads : ConnectStart(t)
    \/ \E t \in Threads : InitializeAggregate(t)
    \/ \E t \in Threads : ReadLine(t)
    \/ \E c \in DOMAIN conns : ProviderServe(c)
    \/ \E c \in DOMAIN conns : ProviderServeMalformed(c)
    \/ \E c \in DOMAIN conns : ProviderExit(c)

InitOrphan == InitWith(WireConfigs, 1, OrphanOps, 0)
SpecOrphan == InitOrphan /\ [][NextOrphan]_vars

\* C37: once cleanup() has returned, no subprocess the registry spawned is
\* running, those of failed handshakes and those of connections a repeated
\* initialize() replaced in the map included.
C37_NoOrphanedSubprocess ==
    [][\A t \in Threads :
         CleansUp(t) => \A c \in DOMAIN conns : proc'[c] # "running"
      ]_vars

\* what cleanup() does stop: the subprocess of every connection that is in
\* the map when it is called, whether its handshake succeeded or failed;
\* the subprocess of a connection that is no longer in the map is left in
\* the state it was in
C37_OnlyRegisteredStopped ==
    [][\A t \in Threads :
         CleansUp(t) =>
            \A c \in DOMAIN conns :
                IF c \in Registered THEN proc'[c] # "running" ELSE proc'[c] = proc[c]
      ]_vars

\* cleanup() has returned after two initialize() calls: the subprocess of
\* the connection the second call replaced is running and no connection
\* object of the registry refers to it
C37_Witness ==
    \E t \in Threads :
        /\ th[t].op = "cleanup"
        /\ th[t].ret.kind = "value"
        /\ Cleared
        /\ Len(conns) = 2
        /\ conns[1].initialized
        /\ proc[1] = "running"
        /\ proc[2] \in {"terminated", "killed"}

\* cleanup() has stopped the subprocess of a connection whose handshake
\* failed on the initialize response
C37_WitnessFailedHandshake ==
    \E t \in Threads :
        /\ th[t].op = "cleanup"
        /\ th[t].ret.kind = "value"
        /\ Len(conns) = 1
        /\ ~conns[1].initialized
        /\ conns[1].tools = EmptyMap
        /\ proc[1] \in {"terminated", "killed"}


\* ------------------------------------------------------------------------
\* The wrapper's cleanup() after an initialization of either kind, under
\* SpecLazy.

\* the step disconnects every connection of the map and clears the registry
DisconnectsAndClears ==
    /\ \A c \in Registered :
          /\ ~conns'[c].process
          /\ ~conns'[c].initialized
          /\ conns[c].process => proc'[c] \in {"terminated", "killed"}
    /\ Cleared'

\* C38: whenever the wrapped registry is initialized, through the wrapper's
\* initialize() or lazily through a getter, DynamicMCPClientSync.cleanup()
\* disconnects every connection and clears the catalogs and the flag.
C38_WrapperCleanup ==
    [][\A t \in Threads :
         (CleansUp(t) /\ client_initialized) => DisconnectsAndClears
      ]_vars

\* what the wrapper does: it runs the registry's cleanup() when it holds a
\* loop that is not closed, and a loop it gets only from its own
\* initialize(), execute_tool() or read_resource(); without one the call
\* returns and the registry is as it was
C38_OnlyWithOpenLoop ==
    [][\A t \in Threads :
         CleansUp(t) =>
            IF wrapper_loop # None /\ ~loops[wrapper_loop].closed
            THEN DisconnectsAndClears
            ELSE UNCHANGED <<conns, proc, server_connections, available_tools,
                             available_resources, client_initialized>>
      ]_vars

\* cleanup() has returned on a wrapper whose registry a getter initialized:
\* the registry is initialized, its connection is in the map and its
\* subprocess is running
C38_Witness ==
    \E t \in Threads :
        /\ th[t].op = "cleanup"
        /\ th[t].ret.kind = "value"
        /\ loops = <<>>
        /\ client_initialized
        /\ "add" \in DOMAIN available_tools
        /\ \E c \in Registered : conns[c].initialized /\ proc[c] = "running"


\* ------------------------------------------------------------------------
\* Capability discovery over one connection whose provider answers a list
\* request with a list, well formed or not, or with an error, writes a line
\* that does not parse, or exits.

\* the provider answers a list request with an error
ProviderServeListError(c) ==
    /\ proc[c] = "running"
    /\ NextRequest(c) # 0
    /\ stdin[c][NextRequest(c)].method \in {"tools/list", "resources/list"}
    /\ stdout' = [stdout EXCEPT ![c] =
                    Append(@, ErrorResponse(stdin[c][NextRequest(c)].id, -1, "unsupported"))]
    /\ stdin' = [stdin EXCEPT ![c] = SubSeq(@, NextRequest(c) + 1, Len(@))]
    /\ UNCHANGED <<servers, conns, proc, server_connections, available_tools,
                   available_resources, client_initialized, wrapper_loop, loops,
                   th, nextId, written, chaos>>

NextDiscovery ==
    \/ NextGather
    \/ \E c \in DOMAIN conns : ProviderServeListError(c)
    \/ \E c \in DOMAIN conns : ProviderServeMalformed(c)
    \/ \E c \in DOMAIN conns : ProviderEmit(c)

InitDiscovery == InitWith(WireConfigs, 1, GatherOps, MaxChaos)
SpecDiscovery == InitDiscovery /\ [][NextDiscovery]_vars

\* in this step a discovery exchange of thread t resolves: _send_request
\* hands it the response to its list request, or None
DiscoveryResolves(t) ==
    /\ th[t].pc = "wait"
    /\ th[t].req.method \in {"tools/list", "resources/list"}
    /\ Handed(t)

\* resp is a list with an entry that lacks its name
MalformedList(resp) == resp.shape = "content" /\ Nameless \in Range(resp.items)

\* C39: after the initialize exchange, a list request answered with an
\* error, or for which no response is read, leaves that map empty and does
\* not fail the connection: discovery goes on and connect() returns true
\* with the connection initialized; connect() returns false only over a
\* list that holds a malformed entry.
C39_DiscoveryFailures ==
    [][\A t \in Threads :
         DiscoveryResolves(t) =>
            LET c == th[t].req.conn
                resp == th'[t].track.handed
                goesOn == /\ th[t].req.method = "tools/list"
                          /\ th'[t].pc = "wait"
                          /\ th'[t].req.method = "resources/list"
                          /\ th'[t].results = th[t].results
                succeeds == /\ th'[t].results = Append(th[t].results, TRUE)
                            /\ conns'[c].initialized
            IN  IF MalformedList(resp)
                THEN /\ th'[t].results = Append(th[t].results, FALSE)
                     /\ ~conns'[c].initialized
                ELSE /\ goesOn \/ succeeds
                     /\ (resp = NoResponse \/ HasError(resp)) =>
                           IF th[t].req.method = "tools/list"
                           THEN conns'[c].tools = EmptyMap
                           ELSE conns'[c].resources = EmptyMap
      ]_vars

\* initialize() returned true over a connection whose tools/list was
\* answered and whose resources/list was answered with an error: the
\* connection is initialized, has tools and no resource
C39_Witness ==
    \E t \in Threads, c \in DOMAIN conns :
        /\ Finished(t, "initialize")
        /\ th[t].results = <<TRUE>>
        /\ HasError(th[t].track.handed)
        /\ conns[c].initialized
        /\ "add" \in DOMAIN conns[c].tools
        /\ conns[c].resources = EmptyMap
        /\ available_resources = EmptyMap

\* connect() returned true although the stream ended before any list was
\* read
C39_WitnessClosed ==
    \E t \in Threads, c \in DOMAIN conns :
        /\ Finished(t, "initialize")
        /\ th[t].results = <<TRUE>>
        /\ th[t].track.handed = NoResponse
        /\ proc[c] = "exited"
        /\ conns[c].initialized
        /\ conns[c].tools = EmptyMap
        /\ conns[c].resources = EmptyMap

\* connect() returned false over a tool without a name
C39_WitnessMalformed ==
    \E t \in Threads, c \in DOMAIN conns :
        /\ Finished(t, "initialize")
        /\ th[t].results = <<FALSE>>
        /\ MalformedList(th[t].track.handed)
        /\ ~conns[c].initialized
        /\ proc[c] = "terminated"


\* ------------------------------------------------------------------------
\* The operations of the configuration manager that can fail: import_config,
\* remove_server, update_server, enable_server and disable_server, next to
\* add_server.

ManagerKeys == {"weather", "My Math Tool", "math_tool"}

\* the definitions a caller adds or passes to update_server
ManagerDefinitions ==
    {c \in ServerDefinitions :
        c.transport.member = "STDIO" /\ c.url = PyNone /\ c.description = PyNone}

\* update_server: the entry under the key is replaced, if there is one
UpdateServer(t, key, config) ==
    LET found == \E i \in DOMAIN servers : servers[i].key = key
    IN  /\ th[t].pc = "idle"
        /\ th[t].opsLeft > 0
        /\ servers' = [i \in DOMAIN servers |->
                          IF servers[i].key = key THEN [key |-> key, config |-> config]
                          ELSE servers[i]]
        /\ th' = [th EXCEPT ![t] = [IdleThread(th[t].opsLeft - 1) EXCEPT
                     !.op = "update_server", !.arg = key,
                     !.ret = Value(found, "update_server", key)]]
        /\ UNCHANGED <<conns, proc, stdin, stdout, server_connections,
                       available_tools, available_resources, client_initialized,
                       wrapper_loop, loops, nextId, written, chaos>>

\* enable_server (flag TRUE) and disable_server (flag FALSE): the enabled
\* field of the entry under the key is set, if there is one
SetEnabled(t, key, flag) ==
    LET found == \E i \in DOMAIN servers : servers[i].key = key
        op == IF flag THEN "enable_server" ELSE "disable_server"
    IN  /\ th[t].pc = "idle"
        /\ th[t].opsLeft > 0
        /\ servers' = [i \in DOMAIN servers |->
                          IF servers[i].key = key
                          THEN [servers[i] EXCEPT !.config.enabled = PyBool(flag)]
                          ELSE servers[i]]
        /\ th' = [th EXCEPT ![t] = [IdleThread(th[t].opsLeft - 1) EXCEPT
                     !.op = op, !.arg = key, !.ret = Value(found, op, key)]]
        /\ UNCHANGED <<conns, proc, stdin, stdout, server_connections,
                       available_tools, available_resources, client_initialized,
                       wrapper_loop, loops, nextId, written, chaos>>

EnableServer(t, key) == SetEnabled(t, key, TRUE)
DisableServer(t, key) == SetEnabled(t, key, FALSE)

\* one entry of a document: the export of a definition under a key
Exported(key, config) == [key |-> key, value |-> JsonDumps(PyDict(ToDict(config)))]

\* an entry from_dict rejects: no command
NoCommand(key) ==
    [key |-> key, value |-> JsonObject([f \in {"name"} |-> JsonString(key)])]

\* documents with one entry that converts and, behind or before it, one
\* that does not: a definition without a command, a transport that is no
\* member, a value that is no object
MixedDocuments ==
    {[kind |-> "json", servers |-> <<Exported("math_tool", c), bad>>] :
        c \in {c \in ManagerDefinitions : c.name.s = "My Math Tool" /\ c.enabled.b},
        bad \in {NoCommand("weather"),
                 [key |-> "weather", value |-> JsonString("npx")],
                 [key |-> "weather",
                  value |-> JsonObject([f \in RequiredFields \cup {"transport"} |->
                                           JsonString("tcp")])]}}
    \cup {[kind |-> "json", servers |-> <<NoCommand("weather"), Exported("math_tool", c)>>] :
            c \in {c \in ManagerDefinitions : c.name.s = "My Math Tool" /\ c.enabled.b}}

ManagerDocuments == {BadDocument} \cup MixedDocuments

NextManager ==
    \/ \E t \in Threads, config \in ManagerDefinitions : AddServer(t, config)
    \/ \E t \in Threads, key \in ManagerKeys : RemoveServer(t, key)
    \/ \E t \in Threads, key \in ManagerKeys, config \in ManagerDefinitions :
          UpdateServer(t, key, config)
    \/ \E t \in Threads, key \in ManagerKeys : EnableServer(t, key)
    \/ \E t \in Threads, key \in ManagerKeys : DisableServer(t, key)
    \/ \E t \in Threads, document \in ManagerDocuments \cup Documents :
          CallImportConfig(t, document)

InitManager == InitWith({<<>>}, 1, ManagerOps, 0)
SpecManager == InitManager /\ [][NextManager]_vars

\* the keys of the stored definitions
StoredKeys == {servers[i].key : i \in DOMAIN servers}

\* thread t calls op and it returns
Calls(t, op) ==
    /\ th[t].pc = "idle"
    /\ th'[t].opsLeft = th[t].opsLeft - 1
    /\ th'[t].op = op

\* C40: import_config on text that is no JSON or on a document with an
\* entry that cannot be turned into a definition returns false and keeps
\* the stored definitions; remove_server, update_server, enable_server and
\* disable_server on a name that is not stored return false and change
\* nothing.
C40_FailedOperationsKeepServers ==
    /\ [](\A document \in ManagerDocuments :
            ImportConfig(servers, document) = [ok |-> FALSE, servers |-> servers])
    /\ [][\A t \in Threads :
            /\ (Calls(t, "import_config") /\ ~th'[t].ret.ok) => servers' = servers
            /\ \A op \in {"remove_server", "update_server",
                          "enable_server", "disable_server"} :
                  Calls(t, op) =>
                     /\ th'[t].ret.ok <=> th'[t].ret.text \in StoredKeys
                     /\ ~th'[t].ret.ok => servers' = servers
       ]_vars

\* an import_config returned false on a manager that holds two definitions
C40_Witness ==
    \E t \in Threads :
        /\ Finished(t, "import_config")
        /\ ~th[t].ret.ok
        /\ Len(servers) = 2

\* update_server on a name that is not stored returned false on a manager
\* that holds another definition
C40_WitnessUnknownName ==
    \E t \in Threads :
        /\ Finished(t, "update_server")
        /\ ~th[t].ret.ok
        /\ th[t].ret.text = "math_tool"
        /\ StoredKeys = {"weather"}

====
